---- MODULE Spec2Model ----
(***************************************************************************)
(* Symbol cache and address resolution engine of the IPSW symbol server    *)
(* (custom_symbol_server.py): the address resolver, the TTL cache store    *)
(* and the on-demand extraction pipeline; the firmware cache and its       *)
(* eviction (s3_optimized_manager.py).                                     *)
(*                                                                         *)
(* Four specifications share the variables:                                *)
(*   SpecResolve  symbolicate_addresses applied to bounded inputs          *)
(*   SpecCache    cache_symbols / get_cached_symbols against the clock     *)
(*   Spec         concurrent auto_ensure_symbols_available requests,       *)
(*                scan_ipsw and the lookup of symbolicate_crash            *)
(*   SpecEvict    get_ipsw_path, the cache_worker threads and cleanup_cache *)
(***************************************************************************)
EXTENDS Integers, Sequences, FiniteSets, TLC

VARIABLES
    symbols,        \* symbolicate_addresses: the symbols argument (ordered dict)
    addresses,      \* symbolicate_addresses: the addresses argument (list of int)
    symbolicated,   \* symbolicate_addresses: outcome of the call
    db,             \* table symbol_cache: cache_key -> [symbol_data, expires_at]
    now,            \* the clock (datetime.now() / CURRENT_TIMESTAMP), in hours
    ticks,          \* number of clock advances so far
    got,            \* history: the latest get_cached_symbols call of SpecCache
    put_log,        \* history: per key, the latest cache_symbols call of SpecCache
    pc,             \* per request: the await point its coroutine is suspended at
    req,            \* per request: device_model, ios_version, build_number ("" is None)
    loc,            \* per request: local variables of auto_ensure_symbols_available
    ret,            \* per request: the tuple auto_ensure_symbols_available returned
    used,           \* per request: the table symbolicate_crash found for resolution
    ipsw_files,     \* DOWNLOADS_DIR: file name -> "complete" | "partial"
    kernelcaches,   \* CACHE_DIR: stems with an extracted kernelcache binary
    symbol_files,   \* CACHE_DIR: stems with a valid kernelcache .symbols.json file
    scans,          \* scan_ipsw requests: pending background cache writes and count
    hist,           \* history: what each request did and saw
    cache_dirs,     \* S3OptimizedManager: cache_path/<cache_key> directories, size in GB
    access_log,     \* S3OptimizedManager.access_log: cache_key -> last_access, access_count
    metadata_file,  \* cache_metadata.json: the access log as last saved
    thread,         \* cache_worker threads and the background cleanup thread
    wall,           \* datetime.now() of the firmware listing, in seconds
    cache_timestamp,\* per S3 manager: _cache_timestamp, None before the first refresh
    fresh,          \* history: the latest _ensure_cache_fresh call
    bucket_cache,   \* _bucket_cache.values() of a manager: the parsed file names
    wanted,         \* find_ipsw: device_model, os_version, build_number ("" is None)
    located,        \* what the locator operations returned for wanted
    kernel_signatures, \* app.py: the version keys of kernel_signatures, in dict order
    requested_os_version, \* symbolicate_kernel_address: the os_version argument
    version_key,    \* symbolicate_kernel_address: the version key it selected
    signature_functions, \* the 'functions' of the signatures: xnu and kexts
    kernel_address, \* symbolicate_kernel_address: the address argument
    kernel_symbol,  \* symbolicate_kernel_address: what it returned
    refresh_task,   \* refresh_bucket_cache of InternalS3Manager: the await point and history
    watcher         \* s3_file_watcher: _watcher_instance and the S3FileWatcher objects

vars == <<symbols, addresses, symbolicated, db, now, ticks, got, put_log,
          pc, req, loc, ret, used, ipsw_files, kernelcaches, symbol_files, scans, hist,
          cache_dirs, access_log, metadata_file, thread,
          wall, cache_timestamp, fresh, bucket_cache, wanted, located,
          kernel_signatures, requested_os_version, version_key,
          signature_functions, kernel_address, kernel_symbol,
          refresh_task, watcher>>

resolver_vars == <<symbols, addresses, symbolicated>>
store_vars == <<db, now, ticks, got, put_log>>
request_vars == <<pc, req, loc, ret, used, hist>>
disk_vars == <<ipsw_files, kernelcaches, symbol_files>>
evict_vars == <<cache_dirs, access_log, metadata_file, thread>>
signature_vars == <<kernel_signatures, requested_os_version, version_key,
                    signature_functions, kernel_address, kernel_symbol>>
watch_vars == <<refresh_task, watcher>>
lookup_vars == <<wall, cache_timestamp, fresh, bucket_cache, wanted, located,
                 signature_vars, watch_vars>>
pipeline_vars == <<pc, req, loc, ret, used, ipsw_files, kernelcaches, symbol_files, scans, hist>>

(***************************************************************************)
(* Bounds                                                                  *)
(***************************************************************************)
MaxEntries == 2     \* entries of a symbol table handed to the resolver
MaxAddrs == 2       \* addresses of one resolution request
MaxTicks == 1       \* clock advances in one behaviour
MaxAccess == 3      \* accesses counted for one firmware file
MaxFiles == 2       \* firmware files in one bucket listing
MaxVersions == 2    \* version keys of kernel_signatures

(***************************************************************************)
(* Strings are sequences of one-character strings, so that parsing and     *)
(* formatting are computed digit by digit as Python's int() and the        *)
(* f-string "0x{addr:x}" compute them.                                     *)
(***************************************************************************)
HexDigits == <<"0","1","2","3","4","5","6","7","8","9","a","b","c","d","e","f">>

\* value of digit character c in the given base, or -1 (int() raises ValueError)
DigitVal(c, base) ==
    LET hits == {i \in 1..base : HexDigits[i] = c}
    IN  IF hits = {} THEN -1 ELSE (CHOOSE i \in hits : TRUE) - 1

RECURSIVE ParseDigits(_, _, _)
\* int(s, base) for a string of digits: [ok |-> FALSE] stands for ValueError
ParseDigits(s, base, acc) ==
    IF s = <<>> THEN [ok |-> TRUE, val |-> acc]
    ELSE LET d == DigitVal(Head(s), base)
         IN  IF d < 0 THEN [ok |-> FALSE, val |-> 0]
             ELSE ParseDigits(Tail(s), base, acc * base + d)

StartsWith0x(s) == Len(s) >= 2 /\ s[1] = "0" /\ s[2] = "x"

\* lines 435-438: int(addr_str, 16) when the key starts with '0x', else int(addr_str)
ParseKey(s) ==
    IF StartsWith0x(s)
    THEN IF Len(s) = 2 THEN [ok |-> FALSE, val |-> 0]
         ELSE ParseDigits(SubSeq(s, 3, Len(s)), 16, 0)
    ELSE IF s = <<>> THEN [ok |-> FALSE, val |-> 0]
         ELSE ParseDigits(s, 10, 0)

RECURSIVE ToHexDigits(_)
\* format(n, 'x') for n >= 0
ToHexDigits(n) ==
    IF n < 16 THEN <<HexDigits[n + 1]>>
    ELSE ToHexDigits(n \div 16) \o <<HexDigits[(n % 16) + 1]>>

\* f"0x{addr:x}"
HexAddr(n) == <<"0", "x">> \o ToHexDigits(n)

(***************************************************************************)
(* symbolicate_addresses (custom_symbol_server.py 427-478)                 *)
(*                                                                         *)
(* A symbols dict is a sequence of <<key, name>> pairs with distinct keys, *)
(* in the dict's iteration order.  A resolved symbol is the sequence of    *)
(* the pieces the f-string concatenates: <<name>> for an exact hit,        *)
(* <<name, "+0x">> \o hex(offset) for a nearest hit and                    *)
(* <<"<unknown>", "+0x">> \o hex(addr) when nothing is found.              *)
(***************************************************************************)
TOLERANCE == 65536      \* 0x10000, line 470

\* lines 432-441: later keys that parse to the same integer overwrite earlier ones;
\* a key that does not parse (ValueError) is skipped
symbols_by_int(syms) ==
    LET parsed == [i \in 1..Len(syms) |-> ParseKey(syms[i][1])]
        ok == {i \in 1..Len(syms) : parsed[i].ok}
    IN  [a \in {parsed[i].val : i \in ok} |->
            LET idx == {i \in ok : parsed[i].val = a}
                last == CHOOSE i \in idx : \A j \in idx : j <= i
            IN  syms[last][2]]

RECURSIVE SortedSeq(_)
\* sorted(symbols_by_int.keys()), line 451
SortedSeq(S) ==
    IF S = {} THEN <<>>
    ELSE LET m == CHOOSE x \in S : \A y \in S : x <= y
         IN  <<m>> \o SortedSeq(S \ {m})

\* bisect.bisect_right on a sorted list: the number of elements <= x
bisect_right(a, x) == Cardinality({i \in 1..Len(a) : a[i] <= x})

\* line 470: the offset test of the nearest-symbol branch
OffsetReasonable_incl(offset) == offset <= TOLERANCE
OffsetReasonable(offset) == offset < TOLERANCE

\* line 473: "if symbol:" is a truthiness test; the empty string is falsy
Truthy(symbol) == symbol # <<"">>

UnknownSymbol(addr) == <<"<unknown>", "+0x">> \o ToHexDigits(addr)

\* lines 453-476, the body of the loop for one address; <<>> stands for None
ResolveOne(addr, byInt, sorted) ==
    LET symbol ==
            IF addr \in DOMAIN byInt
            THEN <<byInt[addr]>>
            ELSE LET idx == bisect_right(sorted, addr) - 1
                 IN  IF idx >= 0
                     THEN LET nearest_addr == sorted[idx + 1]
                              offset == addr - nearest_addr
                          IN  IF OffsetReasonable(offset)
                              THEN <<byInt[nearest_addr], "+0x">> \o ToHexDigits(offset)
                              ELSE <<>>
                     ELSE <<>>
    IN  IF symbol # <<>> /\ Truthy(symbol) THEN symbol ELSE UnknownSymbol(addr)

\* the exception handling of lines 434-441: ValueError is caught, nothing else
\* in the function can raise for a dict of str keys and a list of ints
Raises_uncaught(syms) == \E i \in 1..Len(syms) : ~ParseKey(syms[i][1]).ok
Raises(syms) == FALSE

symbolicate_addresses(addrs, syms) ==
    IF Raises(syms) THEN [outcome |-> "raised", value |-> <<>>]
    ELSE LET byInt == symbols_by_int(syms)
             sorted == SortedSeq(DOMAIN byInt)
             keys == {HexAddr(addrs[i]) : i \in 1..Len(addrs)}
         IN  [outcome |-> "returned",
              value |-> [h \in keys |->
                  LET idx == {i \in 1..Len(addrs) : HexAddr(addrs[i]) = h}
                      last == CHOOSE i \in idx : \A j \in idx : j <= i
                  IN  ResolveOne(addrs[last], byInt, sorted)]]

(***************************************************************************)
(* Inputs of SpecResolve                                                   *)
(***************************************************************************)
\* keys a cached table can hold: hex and decimal spellings, and an unparsable one
KeyStrings == { <<"0","x","2","0","0","0">>,        \* 0x2000
                <<"8","1","9","2">>,                \* 8192 = 0x2000
                <<"0","x","2","3","0","0","0">>,    \* 0x23000
                <<"z","z">> }

Names == {"foo", "bar", ""}

\* addresses as extract_addresses delivers them (all above 0x1000, lines 207/230)
QueryAddrs == { 8192,       \* 0x2000  an entry
                73727,      \* 0x11fff = 0x2000 + 0x10000 - 1
                73728,      \* 0x12000 = 0x2000 + 0x10000
                143360,     \* 0x23000 an entry
                143361 }    \* 0x23001

RECURSIVE SeqsUpTo(_, _)
SeqsUpTo(S, n) ==
    IF n = 0 THEN {<<>>}
    ELSE LET shorter == SeqsUpTo(S, n - 1)
         IN  shorter \cup {Append(s, x) : s \in shorter, x \in S}

DistinctKeys(syms) == \A i, j \in 1..Len(syms) : i # j => syms[i][1] # syms[j][1]

SymbolDicts == {s \in SeqsUpTo(KeyStrings \X Names, MaxEntries) : DistinctKeys(s)}

AddressLists == SeqsUpTo(QueryAddrs, MaxAddrs)

Pending == [outcome |-> "pending", value |-> <<>>]

(***************************************************************************)
(* DatabaseManager: the TTL cache in table symbol_cache                    *)
(* (custom_symbol_server.py 114-148)                                       *)
(*                                                                         *)
(* A cache key is the sequence of the tokens its f-string joins with "_".  *)
(* The connection pool is taken to be available, so the except branches of *)
(* lines 131 and 146 are not entered.                                      *)
(***************************************************************************)
EXPIRES_HOURS == 24     \* expires_hours, line 114 and the call sites

\* json.dumps of a dict: the members in iteration order
json_dumps(data) == [i \in 1..Len(data) |-> <<data[i][1], data[i][2]>>]

\* json.loads of an object: a repeated member name keeps its first position
\* and takes its last value
json_loads(text) ==
    LET firsts == {i \in 1..Len(text) : \A j \in 1..(i - 1) : text[j][1] # text[i][1]}
        LastVal(k) == text[CHOOSE i \in 1..Len(text) :
                              /\ text[i][1] = k
                              /\ \A j \in 1..Len(text) : text[j][1] = k => j <= i][2]
        RECURSIVE Build(_)
        Build(i) == IF i > Len(text) THEN <<>>
                    ELSE IF i \in firsts
                         THEN <<<<text[i][1], LastVal(text[i][1])>>>> \o Build(i + 1)
                         ELSE Build(i + 1)
    IN  Build(1)

\* lines 117-128: INSERT ... ON CONFLICT (cache_key) DO UPDATE
Upsert(table, cache_key, row) ==
    [k \in DOMAIN table \cup {cache_key} |-> IF k = cache_key THEN row ELSE table[k]]

cache_symbols(table, cache_key, symbol_data, expires_hours, clock) ==
    Upsert(table, cache_key,
           [symbol_data |-> json_dumps(symbol_data),
            expires_at |-> clock + expires_hours])

\* line 140: WHERE cache_key = $1 AND expires_at > CURRENT_TIMESTAMP
RowLive_incl(table, cache_key, clock) ==
    cache_key \in DOMAIN table /\ table[cache_key].expires_at >= clock
RowLive(table, cache_key, clock) ==
    cache_key \in DOMAIN table /\ table[cache_key].expires_at > clock

None == [found |-> FALSE, data |-> <<>>]

\* lines 134-148; None when no live row exists
get_cached_symbols(table, cache_key, clock) ==
    IF RowLive(table, cache_key, clock)
    THEN [found |-> TRUE, data |-> json_loads(table[cache_key].symbol_data)]
    ELSE None

\* "if symbols:" at the call sites: a found, non-empty dict
IsHit(r) == r.found /\ r.data # <<>>

(***************************************************************************)
(* Inputs of SpecCache                                                     *)
(***************************************************************************)
DEVICE == "iPhone15,2"
VERSION == "18.5"

StoreKeys == { <<DEVICE, VERSION>>, <<DEVICE, VERSION, "22F76">> }

StoreTables == { <<>>,
                 << <<HexAddr(8192), "foo">> >>,
                 << <<HexAddr(8192), "bar">>, <<HexAddr(12288), "baz">> >> }

HoursChoices == {1, EXPIRES_HOURS}

\* an hour, or the whole lifetime of a record
TickChoices == {1, EXPIRES_HOURS}

NoPut == [data |-> <<>>, at |-> 0, hours |-> 0, any |-> FALSE]

NoGet == [key |-> <<>>, at |-> 0, result |-> None, done |-> FALSE, after |-> NoPut]

(***************************************************************************)
(* The firmware repository as InternalS3Manager holds it in _bucket_cache  *)
(* (internal_s3_manager.py), and the files the external ipsw tool reads    *)
(* and writes.                                                             *)
(***************************************************************************)
Callers == {"r1", "r2"}

\* the clients of POST /v1/scan-ipsw (scan_ipsw, 798-895), one call each
Scanners == {"s1"}

\* the endpoint a request came in by: POST /v1/symbolicate (symbolicate_crash,
\* 897-983) or POST /v1/auto-scan (auto_scan_endpoint, 985-1004)
Endpoint == [c \in Callers |-> IF c = "r1" THEN "symbolicate" ELSE "auto-scan"]

UNKNOWN == "unknown"    \* default of info.get('build_version', 'unknown'), line 601

\* lines 531-533 and 932: the hard-coded build candidates
FALLBACK_BUILDS == <<"22F76", "22F74", "22F75">>

\* _bucket_cache.values(): one entry per parsed file name (lines 329-344)
BucketCache ==
    << [key |-> "iPhone15,2_18.5_22F76_Restore.ipsw",
        device |-> DEVICE, version |-> VERSION, build |-> "22F76"],
       [key |-> "iPhone15,2_18.5_21E219_Restore.ipsw",
        device |-> DEVICE, version |-> VERSION, build |-> "21E219"] >>

NoFile == [key |-> "", device |-> "", version |-> "", build |-> ""]

FileInfo(key) ==
    IF \E i \in 1..Len(BucketCache) : BucketCache[i].key = key
    THEN BucketCache[CHOOSE i \in 1..Len(BucketCache) : BucketCache[i].key = key]
    ELSE NoFile

\* builds a request can name; "" is build_number = None
RequestBuilds == {"", "22F76", "21E219"}

\* first element of a sequence that satisfies P, NoFile when there is none
FirstWhere(files, P(_)) ==
    IF \E i \in 1..Len(files) : P(files[i])
    THEN files[CHOOSE i \in 1..Len(files) :
                  P(files[i]) /\ \A j \in 1..(i - 1) : ~P(files[j])]
    ELSE NoFile

\* _device_matches (internal_s3_manager.py 482-503) and the substring test of
\* find_ipsw (lines 449-473), on identifiers that are spelled identically or not
device_matches(s3_device, target_device) == s3_device = target_device

\* list_available_ipsw (702-725); the entries of one device and version keep
\* their order under the stable sort by (device, version)
list_available_ipsw(device_filter) ==
    SelectSeq(BucketCache, LAMBDA f : device_matches(f.device, device_filter))

\* find_ipsw (422-480): first cached file of that version and build, any build
\* when build_number is None
find_ipsw(device_model, os_version, build_number) ==
    FirstWhere(BucketCache,
        LAMBDA f : /\ f.version = os_version
                   /\ (build_number = "" \/ f.build = build_number)
                   /\ device_matches(f.device, device_model))

\* the output of `ipsw info`: label = value lines
InfoLines(key) ==
    << <<"Version", FileInfo(key).version>>,
       <<"BuildVersion", FileInfo(key).build>> >>

\* 'Version' in line / 'BuildVersion' in line (substring tests, lines 320-323)
HasVersion(label) == label \in {"Version", "BuildVersion"}
HasBuildVersion(label) == label = "BuildVersion"

RECURSIVE ParseInfo(_, _)
\* extract_ipsw_info (312-325): the if branch shadows the elif branch for a
\* BuildVersion line, because 'Version' is a substring of 'BuildVersion'
ParseInfo(lines, info) ==
    IF lines = <<>> THEN info
    ELSE LET label == Head(lines)[1]
             value == Head(lines)[2]
         IN  ParseInfo(Tail(lines),
                 IF HasVersion(label) THEN [info EXCEPT !.ios_version = value]
                 ELSE IF HasBuildVersion(label) THEN [info EXCEPT !.build_version = value]
                 ELSE info)

extract_ipsw_info(key) == ParseInfo(InfoLines(key), [ios_version |-> "", build_version |-> ""])

\* the symbols `ipsw kernel symbolicate --json` writes for a firmware file
ToolSymbols(key) ==
    IF FileInfo(key).build = "22F76"
    THEN << <<HexAddr(8192), "foo">> >>
    ELSE << <<HexAddr(8192), "bar">>, <<HexAddr(12288), "baz">> >>

\* what a run of `ipsw kernel symbolicate --json` leaves in <kernelcache>.symbols.json:
\* nothing, a JSON object of address -> name, a JSON list of
\* {address, symbol} records, or an empty object
ToolOutcomes == {"failed", "dict", "list", "empty"}

NoSymbolsFile == [exists |-> FALSE, shape |-> "dict", items |-> <<>>]

ToolFile(key, outcome) ==
    CASE outcome = "dict" -> [exists |-> TRUE, shape |-> "dict", items |-> ToolSymbols(key)]
      [] outcome = "list" -> [exists |-> TRUE, shape |-> "list", items |-> ToolSymbols(key)]
      [] outcome = "empty" -> [exists |-> TRUE, shape |-> "dict", items |-> <<>>]
      [] OTHER -> NoSymbolsFile

\* lines 361 and 390: `if symbols_data and isinstance(symbols_data, dict)`
valid_symbols_data(file) == file.items # <<>> /\ file.shape = "dict"

\* symbolicate_kernelcache (353-404) when no valid symbols file exists yet: the
\* tool is run; the path is returned (TRUE) when it succeeded, the file exists
\* and its data is a non-empty dict
symbolicate_kernelcache(file, success) ==
    success /\ file.exists /\ valid_symbols_data(file)

\* line 419: {item['address']: item['symbol'] for item in symbols_data}; a
\* repeated address keeps its first position and takes its last symbol
list_to_dict(items) == json_loads(items)

\* load_symbols (406-425): a dict as it is, a list converted to a dict, {} otherwise
load_symbols(file) ==
    IF ~file.exists THEN <<>>
    ELSE IF file.shape = "dict" THEN json_loads(file.items)
    ELSE IF file.shape = "list" THEN list_to_dict(file.items)
    ELSE <<>>

\* the tool can read a firmware file only when it is there and complete
Readable(files, path) == path \in DOMAIN files /\ files[path] = "complete"

(***************************************************************************)
(* Cache keys (f-strings of lines 520-542, 604, 635-643, 828, 926-941)     *)
(***************************************************************************)
KeyDV(d, v) == <<d, v>>
KeyDVB(d, v, b) == <<d, v, b>>
KeyDBU(d, b) == <<d, b, UNKNOWN>>

\* lines 528-542: the keys the pattern loop of auto_ensure_symbols_available
\* looks up, in order (with a build the first two patterns give the same key)
PatternKeys_short(r) ==
    IF r.build # ""
    THEN << KeyDVB(r.device, r.version, r.build),
            KeyDVB(r.device, r.version, r.build) >>
    ELSE [i \in 1..Len(FALLBACK_BUILDS) |-> KeyDVB(r.device, r.version, FALLBACK_BUILDS[i])]
PatternKeys(r) ==
    IF r.build # ""
    THEN << KeyDVB(r.device, r.version, r.build),
            KeyDVB(r.device, r.version, r.build),
            KeyDBU(r.device, r.build) >>
    ELSE [i \in 1..Len(FALLBACK_BUILDS) |-> KeyDVB(r.device, r.version, FALLBACK_BUILDS[i])]
         \o [i \in 1..Len(FALLBACK_BUILDS) |-> KeyDBU(r.device, FALLBACK_BUILDS[i])]

\* lines 520-547: every key auto_ensure_symbols_available looks up before listing
EnsureLookupKeys(r) == <<KeyDV(r.device, r.version)>> \o PatternKeys(r)

\* lines 932-946: the keys symbolicate_crash tries after device_version
FallbackLookupKeys(r) ==
    [i \in 1..(2 * Len(FALLBACK_BUILDS)) |->
        IF i % 2 = 1
        THEN KeyDVB(r.device, r.version, FALLBACK_BUILDS[(i + 1) \div 2])
        ELSE KeyDBU(r.device, FALLBACK_BUILDS[i \div 2])]

\* lines 635-643: the keys a successful extraction is cached under
CacheKeys(r, extracted_build_version) ==
    << KeyDV(r.device, r.version),
       KeyDVB(r.device, r.version, extracted_build_version),
       KeyDBU(r.device, extracted_build_version) >>
    \o (IF r.build # "" /\ r.build # extracted_build_version
        THEN << KeyDVB(r.device, r.version, r.build), KeyDBU(r.device, r.build) >>
        ELSE <<>>)

\* lines 559-579: the artifact the locate step selects
matching_ipsw(r) ==
    LET files == list_available_ipsw(r.device)
        first == FirstWhere(files,
                    LAMBDA f : /\ f.device = r.device /\ f.version = r.version
                               /\ (r.build = "" \/ f.build = r.build))
    IN  IF first = NoFile /\ r.build # ""
        THEN FirstWhere(files,
                 LAMBDA f : f.device = r.device /\ f.version = r.version)
        ELSE first

(***************************************************************************)
(* Requests: symbolicate_crash (897-983) calling                           *)
(* auto_ensure_symbols_available (505-694).  An action is the code a       *)
(* coroutine runs between two suspensions; the subprocess calls of         *)
(* SymbolManager are synchronous and never suspend.                        *)
(***************************************************************************)
NoReq == [device |-> "", version |-> "", build |-> ""]
NoLoc == [i |-> 0, matching |-> "", ipsw_path |-> "",
          extracted_ios_version |-> "", extracted_build_version |-> "",
          symbols |-> <<>>, cache_keys |-> <<>>]
NoRet == [returned |-> FALSE, success |-> FALSE, message |-> ""]
NoUse == [decided |-> FALSE, found |-> FALSE, data |-> <<>>, key |-> <<>>]
\* history of a request: the cache and clock when it arrived, the requests
\* whose ensure call was running when it arrived, the operations its ensure
\* call performed and the failures it met
NoHist == [db_at_call |-> <<>>, now_at_call |-> 0, overlapped |-> {}, ops |-> {},
           failed |-> {}]

\* await points inside auto_ensure_symbols_available
EnsurePcs == {"check", "patterns", "locate", "download", "downloading",
              "recheck", "cache", "meta"}

\* the threads: cache_worker threads (line 186) and background_cleanup (line 48)
Workers == {"w1", "w2"}
Background == "bg"
Threads == Workers \cup {Background}
IdleThread == [pc |-> "idle", key |-> "", items |-> <<>>, i |-> 0, freed |-> 0,
               required |-> 0]

\* S3OptimizedManager.__init__ (19-49) with an empty cache directory
EvictInit ==
    /\ cache_dirs = <<>>
    /\ access_log = <<>>
    /\ metadata_file = <<>>
    /\ thread = [t \in Threads |-> IdleThread]

\* app.py 32: kernel_signatures = {}, and no call yet
\* return None of symbolicate_kernel_address
NoKernelSymbol == [found |-> FALSE, symbol |-> <<>>, offset |-> 0, type |-> ""]
NoVersionKey == [done |-> FALSE, found |-> FALSE, key |-> <<>>]

SignaturesInit ==
    /\ kernel_signatures = <<>>
    /\ requested_os_version = <<>>
    /\ version_key = NoVersionKey
    /\ signature_functions = [xnu |-> <<>>, kexts |-> <<>>]
    /\ kernel_address = <<>>
    /\ kernel_symbol = NoKernelSymbol

NoWanted == [device |-> <<>>, version |-> "", build |-> ""]
NotLocated == [done |-> FALSE]

\* the S3 managers: InternalS3Manager and S3IPSWDownloader
Managers == {"internal", "downloader"}
\* _cache_timestamp: None, or the time of the latest stamped refresh
NoTimestamp == [set |-> FALSE, at |-> 0]
NoFresh == [manager |-> "", elapsed |-> 0, refreshed |-> FALSE]

\* __init__: _cache_timestamp = None (internal_s3_manager.py 52,
\* s3_download_manager.py 40)
\* no refresh is running and none has finished
NoRefresh == [pc |-> "idle", runs |-> 0, before |-> <<>>, stamp_before |-> NoTimestamp,
              answered |-> FALSE, reads |-> {}, finished |-> FALSE, after |-> <<>>]
\* _watcher_instance: Optional[S3FileWatcher] = None (s3_file_watcher.py 281);
\* instance 0 is None
NoWatcher == [instance |-> 0, objects |-> <<>>]

WatchInit ==
    /\ refresh_task = NoRefresh
    /\ watcher = NoWatcher

LookupInit ==
    /\ wall = 0
    /\ cache_timestamp = [m \in Managers |-> NoTimestamp]
    /\ fresh = NoFresh
    /\ bucket_cache = <<>>
    /\ wanted = NoWanted
    /\ located = NotLocated
    /\ SignaturesInit
    /\ WatchInit

PipelineInit ==
    /\ pc = [c \in Callers |-> "idle"]
    /\ req = [c \in Callers |-> NoReq]
    /\ loc = [c \in Callers |-> NoLoc]
    /\ ret = [c \in Callers |-> NoRet]
    /\ used = [c \in Callers |-> NoUse]
    /\ hist = [c \in Callers |-> NoHist]
    /\ ipsw_files = <<>>
    /\ kernelcaches = {}
    /\ symbol_files = {}
    /\ scans = [called |-> {}, pending |-> {}]

Did(c, op) == [hist EXCEPT ![c].ops = @ \cup op]

\* "return success, message" of auto_ensure_symbols_available, which ends the
\* life of its locals; symbolicate_crash goes on to its own cache lookup
\* whatever the outcome (lines 919-928), auto_scan_endpoint responds
Returns(c, success, message, op) ==
    /\ ret' = [ret EXCEPT ![c] = [returned |-> TRUE, success |-> success, message |-> message]]
    /\ pc' = [pc EXCEPT ![c] = IF Endpoint[c] = "symbolicate" THEN "lookup" ELSE "done"]
    /\ hist' = [hist EXCEPT ![c].ops = @ \cup op,
                             ![c].failed = IF success THEN @ ELSE @ \cup {message}]
    /\ loc' = [loc EXCEPT ![c] = NoLoc]

\* a request arrives
Request(c, b) ==
    /\ pc[c] = "idle"
    /\ LET r == [device |-> DEVICE, version |-> VERSION, build |-> b]
       IN  /\ req' = [req EXCEPT ![c] = r]
           /\ hist' = [hist EXCEPT ![c] =
                  [NoHist EXCEPT !.db_at_call = db, !.now_at_call = now,
                                 !.overlapped = {o \in Callers \ {c} : pc[o] \in EnsurePcs}]]
    /\ pc' = [pc EXCEPT ![c] = "check"]
    /\ UNCHANGED <<loc, ret, used, disk_vars, scans, store_vars, resolver_vars, evict_vars, lookup_vars>>

\* lines 519-525
EnsureCheck(c) ==
    /\ pc[c] = "check"
    /\ LET r == req[c]
           syms == get_cached_symbols(db, KeyDV(r.device, r.version), now)
       IN  IF IsHit(syms)
           THEN /\ Returns(c, TRUE, "Symbols already available", {})
           ELSE /\ pc' = [pc EXCEPT ![c] = "patterns"]
                /\ loc' = [loc EXCEPT ![c].i = 1]
                /\ UNCHANGED <<ret, hist>>
    /\ UNCHANGED <<req, used, disk_vars, scans, store_vars, resolver_vars, evict_vars, lookup_vars>>

\* lines 535-549, one iteration of the pattern loop
EnsureCheckPattern(c) ==
    /\ pc[c] = "patterns"
    /\ LET r == req[c]
           keys == PatternKeys(r)
           syms == get_cached_symbols(db, keys[loc[c].i], now)
       IN  IF IsHit(syms)
           THEN /\ Returns(c, TRUE, "Symbols found with pattern", {})
           ELSE /\ pc' = [pc EXCEPT ![c] =
                            IF loc[c].i < Len(keys) THEN "patterns" ELSE "locate"]
                /\ loc' = [loc EXCEPT ![c].i = @ + 1]
                /\ UNCHANGED <<ret, hist>>
    /\ UNCHANGED <<req, used, disk_vars, scans, store_vars, resolver_vars, evict_vars, lookup_vars>>

\* lines 555-581
EnsureLocate(c) ==
    /\ pc[c] = "locate"
    /\ LET m == matching_ipsw(req[c])
       IN  IF m = NoFile
           THEN /\ Returns(c, FALSE, "No matching IPSW found in S3", {"list"})
           ELSE /\ pc' = [pc EXCEPT ![c] = "download"]
                /\ loc' = [loc EXCEPT ![c].matching = m.key]
                /\ hist' = Did(c, {"list"})
                /\ UNCHANGED ret
    /\ UNCHANGED <<req, used, disk_vars, scans, store_vars, resolver_vars, evict_vars, lookup_vars>>

\* lines 595-605 after a successful download: `ipsw info` and its parse; the
\* coroutine suspends in the cache query of line 605
AfterDownload_ignore(c, path, files, info_ok, op) ==
    LET info == IF Readable(files, path) /\ info_ok THEN extract_ipsw_info(path)
                ELSE [ios_version |-> "", build_version |-> ""]
    IN  /\ loc' = [loc EXCEPT
               ![c].ipsw_path = path,
               ![c].extracted_ios_version =
                   IF info.ios_version # "" THEN info.ios_version ELSE req[c].version,
               ![c].extracted_build_version =
                   IF info.build_version # "" THEN info.build_version ELSE UNKNOWN]
        /\ pc' = [pc EXCEPT ![c] = "recheck"]
        /\ hist' = [hist EXCEPT ![c].ops = @ \cup op \cup {"info"},
                                 ![c].failed = IF Readable(files, path) /\ info_ok THEN @
                                               ELSE @ \cup {"Failed to extract IPSW info"}]
        /\ UNCHANGED ret
AfterDownload(c, path, files, info_ok, op) ==
    IF Readable(files, path) /\ info_ok
    THEN LET info == extract_ipsw_info(path)
         IN  /\ loc' = [loc EXCEPT
                    ![c].ipsw_path = path,
                    ![c].extracted_ios_version =
                        IF info.ios_version # "" THEN info.ios_version ELSE req[c].version,
                    ![c].extracted_build_version =
                        IF info.build_version # "" THEN info.build_version ELSE UNKNOWN]
             /\ pc' = [pc EXCEPT ![c] = "recheck"]
             /\ hist' = Did(c, op \cup {"info"})
             /\ UNCHANGED ret
    ELSE Returns(c, FALSE, "Failed to extract IPSW info", op \cup {"info"})

\* lines 583-588 and download_ipsw (internal_s3_manager.py 505-532) up to the
\* start of the transfer
EnsureDownload(c, info_ok) ==
    /\ pc[c] = "download"
    /\ LET r == req[c]
           build_arg == IF r.build # "" THEN r.build ELSE FileInfo(loc[c].matching).build
           file_info == find_ipsw(r.device, r.version, build_arg)
       IN  IF file_info = NoFile
           THEN /\ Returns(c, FALSE, "Failed to download IPSW: IPSW not found", {})
           ELSE IF file_info.key \in DOMAIN ipsw_files
                THEN AfterDownload(c, file_info.key, ipsw_files, info_ok, {})
                ELSE /\ pc' = [pc EXCEPT ![c] = "downloading"]
                     /\ loc' = [loc EXCEPT ![c].ipsw_path = file_info.key]
                     /\ hist' = Did(c, {"fetch"})
                     /\ UNCHANGED ret
    /\ UNCHANGED <<req, used, disk_vars, scans, store_vars, resolver_vars, evict_vars, lookup_vars>>

DownloadOutcomes == {"ok", "failed", "partial"}

\* the transfer of _download_file_http (538-581) ends: the file is moved into
\* place (line 621), nothing is written, or the HTTP fallback leaves the bytes
\* it wrote to local_path (lines 658-700)
EnsureDownloadDone(c, outcome, info_ok) ==
    /\ pc[c] = "downloading"
    /\ LET path == loc[c].ipsw_path
           files == CASE outcome = "ok" ->
                            [f \in DOMAIN ipsw_files \cup {path} |->
                                IF f = path THEN "complete" ELSE ipsw_files[f]]
                      [] outcome = "partial" ->
                            [f \in DOMAIN ipsw_files \cup {path} |->
                                IF f = path THEN "partial" ELSE ipsw_files[f]]
                      [] OTHER -> ipsw_files
       IN  /\ ipsw_files' = files
           /\ IF outcome = "ok"
              THEN AfterDownload(c, path, files, info_ok, {})
              ELSE /\ Returns(c, FALSE, "Failed to download IPSW", {})
    /\ UNCHANGED <<req, used, kernelcaches, symbol_files, scans, store_vars, resolver_vars, evict_vars, lookup_vars>>

\* lines 605-643: the late cache check, then extract_kernelcache,
\* symbolicate_kernelcache and load_symbols in one synchronous stretch
EnsureRecheck(c, extract_ok, outcome) ==
    /\ pc[c] = "recheck"
    /\ LET r == req[c]
           path == loc[c].ipsw_path
           key == KeyDBU(r.device, loc[c].extracted_build_version)
           syms == get_cached_symbols(db, key, now)
           reuse == path \in symbol_files
           file == IF reuse THEN ToolFile(path, "dict") ELSE ToolFile(path, outcome)
           ran == IF reuse THEN {"extract"} ELSE {"extract", "symbolicate"}
       IN  IF IsHit(syms)
           THEN /\ Returns(c, TRUE, "Symbols found with extracted info", {})
                /\ UNCHANGED <<kernelcaches, symbol_files>>
           ELSE IF ~(Readable(ipsw_files, path) /\ extract_ok)
           THEN /\ Returns(c, FALSE, "Failed to extract kernelcache", {"extract"})
                /\ UNCHANGED <<kernelcaches, symbol_files>>
           ELSE IF ~(reuse \/ symbolicate_kernelcache(file, outcome # "failed"))
           THEN /\ Returns(c, FALSE, "Failed to symbolicate kernelcache", ran)
                /\ kernelcaches' = kernelcaches \cup {path}
                /\ UNCHANGED symbol_files
           ELSE /\ kernelcaches' = kernelcaches \cup {path}
                /\ symbol_files' = symbol_files \cup {path}
                /\ IF load_symbols(file) = <<>>
                   THEN Returns(c, FALSE, "No symbols loaded", ran)
                   ELSE /\ loc' = [loc EXCEPT
                               ![c].symbols = load_symbols(file),
                               ![c].cache_keys = CacheKeys(r, loc[c].extracted_build_version),
                               ![c].i = 1]
                        /\ pc' = [pc EXCEPT ![c] = "cache"]
                        /\ hist' = Did(c, ran)
                        /\ UNCHANGED ret
    /\ UNCHANGED <<req, used, ipsw_files, scans, store_vars, resolver_vars, evict_vars, lookup_vars>>

\* lines 646-648, one iteration: cache_symbols(cache_key, symbols, 24)
EnsureCache(c) ==
    /\ pc[c] = "cache"
    /\ db' = cache_symbols(db, loc[c].cache_keys[loc[c].i], loc[c].symbols,
                           EXPIRES_HOURS, now)
    /\ loc' = [loc EXCEPT ![c].i = @ + 1]
    /\ pc' = [pc EXCEPT ![c] =
                 IF loc[c].i < Len(loc[c].cache_keys) THEN "cache" ELSE "meta"]
    /\ hist' = Did(c, {"put"})
    /\ UNCHANGED <<req, ret, used, disk_vars, scans, now, ticks, got, put_log, resolver_vars, evict_vars, lookup_vars>>

\* lines 662-670: Path(ipsw_path).unlink()
cleanup_ipsw(files, path) == [f \in DOMAIN files \ {path} |-> files[f]]

\* lines 672-684: every file of the kernelcache directory that is not a
\* .symbols.json file is unlinked
cleanup_extracted_none(binaries, path) == binaries
cleanup_extracted(binaries, path) == binaries \ {path}

\* lines 650-686: after save_symbols_metadata the firmware file and the
\* extracted binaries are deleted, the .symbols.json file stays
EnsureFinish_raises(c) ==
    /\ pc[c] = "meta"
    /\ Returns(c, FALSE, "Auto-scan failed", {})
    /\ UNCHANGED <<req, used, disk_vars, scans, store_vars, resolver_vars, evict_vars, lookup_vars>>
EnsureFinish(c) ==
    /\ pc[c] = "meta"
    /\ ipsw_files' = cleanup_ipsw(ipsw_files, loc[c].ipsw_path)
    /\ kernelcaches' = cleanup_extracted(kernelcaches, loc[c].ipsw_path)
    /\ Returns(c, TRUE, "Successfully auto-scanned and cached", {})
    /\ UNCHANGED <<req, used, symbol_files, scans, store_vars, resolver_vars, evict_vars, lookup_vars>>

\* lines 925-930: the first lookup of symbolicate_crash
Lookup(c) ==
    /\ pc[c] = "lookup"
    /\ LET r == req[c]
           key == KeyDV(r.device, r.version)
           syms == get_cached_symbols(db, key, now)
       IN  IF IsHit(syms)
           THEN /\ used' = [used EXCEPT ![c] =
                       [decided |-> TRUE, found |-> TRUE, data |-> syms.data, key |-> key]]
                /\ pc' = [pc EXCEPT ![c] = "done"]
                /\ loc' = [loc EXCEPT ![c] = NoLoc]
           ELSE /\ pc' = [pc EXCEPT ![c] = "fallback"]
                /\ loc' = [loc EXCEPT ![c].i = 1]
                /\ UNCHANGED used
    /\ UNCHANGED <<req, ret, hist, disk_vars, scans, store_vars, resolver_vars, evict_vars, lookup_vars>>

\* lines 931-952, one lookup of the build-pattern loop
LookupFallback(c) ==
    /\ pc[c] = "fallback"
    /\ LET keys == FallbackLookupKeys(req[c])
           key == keys[loc[c].i]
           syms == get_cached_symbols(db, key, now)
       IN  IF IsHit(syms)
           THEN /\ used' = [used EXCEPT ![c] =
                       [decided |-> TRUE, found |-> TRUE, data |-> syms.data, key |-> key]]
                /\ pc' = [pc EXCEPT ![c] = "done"]
                /\ loc' = [loc EXCEPT ![c] = NoLoc]
           ELSE IF loc[c].i < Len(keys)
           THEN /\ loc' = [loc EXCEPT ![c].i = @ + 1]
                /\ UNCHANGED <<pc, used>>
           ELSE /\ used' = [used EXCEPT ![c] =
                       [decided |-> TRUE, found |-> FALSE, data |-> <<>>, key |-> <<>>]]
                /\ pc' = [pc EXCEPT ![c] = "done"]
                /\ loc' = [loc EXCEPT ![c] = NoLoc]
    /\ UNCHANGED <<req, ret, hist, disk_vars, scans, store_vars, resolver_vars, evict_vars, lookup_vars>>

\* scan_ipsw (798-895) on a firmware file of DOWNLOADS_DIR: the device comes
\* from the file name, version and build from `ipsw info`; the cache write is
\* queued as a background task (lines 868-871)
ScanIpsw(s, path, tools_ok) ==
    /\ s \notin scans.called
    /\ path \in DOMAIN ipsw_files
    /\ LET info == extract_ipsw_info(path)
           ios_version == IF info.ios_version # "" THEN info.ios_version ELSE UNKNOWN
           build_version == IF info.build_version # "" THEN info.build_version ELSE UNKNOWN
           cache_key == KeyDVB(FileInfo(path).device, ios_version, build_version)
           cached == get_cached_symbols(db, cache_key, now)
       IN  IF Readable(ipsw_files, path) /\ tools_ok /\ ~IsHit(cached)
           THEN /\ kernelcaches' = kernelcaches \cup {path}
                /\ symbol_files' = symbol_files \cup {path}
                /\ scans' = [called |-> scans.called \cup {s},
                             pending |-> scans.pending \cup {<<cache_key, path>>}]
           ELSE /\ scans' = [scans EXCEPT !.called = @ \cup {s}]
                /\ UNCHANGED <<kernelcaches, symbol_files>>
    /\ UNCHANGED <<request_vars, ipsw_files, store_vars, resolver_vars, evict_vars, lookup_vars>>

\* the background task db_manager.cache_symbols(cache_key, symbols, 24)
ScanCacheTask(task) ==
    /\ task \in scans.pending
    /\ db' = cache_symbols(db, task[1], ToolSymbols(task[2]), EXPIRES_HOURS, now)
    /\ scans' = [scans EXCEPT !.pending = @ \ {task}]
    /\ UNCHANGED <<request_vars, disk_vars, now, ticks, got, put_log, resolver_vars, evict_vars, lookup_vars>>

\* manual_cleanup (1006-1060): every *.ipsw file of DOWNLOADS_DIR is unlinked
ManualCleanup ==
    /\ ipsw_files # <<>>
    /\ ipsw_files' = <<>>
    /\ UNCHANGED <<request_vars, kernelcaches, symbol_files, scans, store_vars,
                   resolver_vars, evict_vars, lookup_vars>>

\* no request is being served and no cache write is queued
Quiescent == (\A c \in Callers : pc[c] \in {"idle", "done"}) /\ scans.pending = {}

\* the clock is in hours: serving a request takes no time on that scale (the
\* subprocess and HTTP timeouts are 30 minutes, line 295 and
\* internal_s3_manager.py 559), so the clock advances between requests
Tick(d) ==
    /\ ticks < MaxTicks
    /\ Quiescent
    /\ now' = now + d
    /\ ticks' = ticks + 1
    /\ UNCHANGED <<db, got, put_log, resolver_vars, pipeline_vars, evict_vars, lookup_vars>>

Init ==
    /\ symbols = <<>> /\ addresses = <<>> /\ symbolicated = Pending
    /\ db = <<>>
    /\ now = 0 /\ ticks = 0
    /\ got = NoGet
    /\ put_log = <<>>
    /\ PipelineInit
    /\ EvictInit
    /\ LookupInit

Next ==
    \/ \E c \in Callers, b \in RequestBuilds : Request(c, b)
    \/ \E c \in Callers : EnsureCheck(c)
    \/ \E c \in Callers : EnsureCheckPattern(c)
    \/ \E c \in Callers : EnsureLocate(c)
    \/ \E c \in Callers, info_ok \in BOOLEAN : EnsureDownload(c, info_ok)
    \/ \E c \in Callers, o \in DownloadOutcomes, info_ok \in BOOLEAN :
          EnsureDownloadDone(c, o, info_ok)
    \/ \E c \in Callers, e_ok \in BOOLEAN, o \in ToolOutcomes : EnsureRecheck(c, e_ok, o)
    \/ \E c \in Callers : EnsureCache(c)
    \/ \E c \in Callers : EnsureFinish(c)
    \/ \E c \in Callers : Lookup(c)
    \/ \E c \in Callers : LookupFallback(c)
    \/ \E s \in Scanners, f \in DOMAIN ipsw_files, ok \in BOOLEAN : ScanIpsw(s, f, ok)
    \/ \E t \in scans.pending : ScanCacheTask(t)
    \/ \E d \in TickChoices : Tick(d)

Spec == Init /\ [][Next]_vars

(***************************************************************************)
(* Requests served one at a time, with the faults of the store, the        *)
(* listing, the download and the tool                                      *)
(***************************************************************************)
\* the await points inside the inner try block (555-690); the others are
\* inside the outer try block only (518-694)
InnerTryPcs == {"locate", "download", "downloading", "recheck", "cache", "meta"}

\* an exception reaches `except Exception as e` of lines 688-690 or 692-694
caught_propagates(c, at) ==
    /\ pc' = [pc EXCEPT ![c] = "raised"]
    /\ UNCHANGED <<ret, hist, loc>>
caught(c, at) ==
    Returns(c, FALSE, IF at \in InnerTryPcs THEN "Auto-scan failed" ELSE "Auto-scan error", {})

\* the operation request c is awaiting raises
EnsureThrows(c) ==
    /\ pc[c] \in EnsurePcs
    /\ caught(c, pc[c])
    /\ UNCHANGED <<req, used, disk_vars, scans, store_vars, resolver_vars, evict_vars,
                   lookup_vars>>

\* lines 646-648 when the store fails: cache_symbols (114-132) logs the
\* exception and returns, nothing is written
EnsureCacheFails(c) ==
    /\ pc[c] = "cache"
    /\ loc' = [loc EXCEPT ![c].i = @ + 1]
    /\ pc' = [pc EXCEPT ![c] =
                 IF loc[c].i < Len(loc[c].cache_keys) THEN "cache" ELSE "meta"]
    /\ hist' = Did(c, {"put"})
    /\ UNCHANGED <<req, ret, used, disk_vars, scans, store_vars, resolver_vars, evict_vars,
                   lookup_vars>>

\* no other request is being served
Alone(c) == \A o \in Callers \ {c} : pc[o] \in {"idle", "done"}

NextFaults ==
    \/ \E c \in Callers, b \in RequestBuilds : Alone(c) /\ Request(c, b)
    \/ \E c \in Callers : EnsureCheck(c)
    \/ \E c \in Callers : EnsureCheckPattern(c)
    \/ \E c \in Callers : EnsureLocate(c)
    \/ \E c \in Callers, info_ok \in BOOLEAN : EnsureDownload(c, info_ok)
    \/ \E c \in Callers, o \in DownloadOutcomes, info_ok \in BOOLEAN :
          EnsureDownloadDone(c, o, info_ok)
    \/ \E c \in Callers, e_ok \in BOOLEAN, o \in ToolOutcomes : EnsureRecheck(c, e_ok, o)
    \/ \E c \in Callers : EnsureCache(c)
    \/ \E c \in Callers : EnsureCacheFails(c)
    \/ \E c \in Callers : EnsureFinish(c)
    \/ \E c \in Callers : EnsureThrows(c)
    \/ \E c \in Callers : Lookup(c)
    \/ \E c \in Callers : LookupFallback(c)
    \/ \E d \in TickChoices : Tick(d)

SpecFaults == Init /\ [][NextFaults]_vars

\* the server with an operator who calls the manual cleanup endpoint
NextCleanup ==
    \/ Next
    \/ ManualCleanup

SpecCleanup == Init /\ [][NextCleanup]_vars

(***************************************************************************)
(* SpecResolve: symbolicate_addresses applied to bounded inputs            *)
(***************************************************************************)
InitResolve ==
    /\ symbols \in SymbolDicts
    /\ addresses \in AddressLists
    /\ symbolicated = Pending
    /\ db = <<>> /\ now = 0 /\ ticks = 0
    /\ got = NoGet
    /\ put_log = <<>>
    /\ PipelineInit
    /\ EvictInit
    /\ LookupInit

Symbolicate ==
    /\ symbolicated = Pending
    /\ symbolicated' = symbolicate_addresses(addresses, symbols)
    /\ UNCHANGED <<symbols, addresses, store_vars, pipeline_vars, evict_vars, lookup_vars>>

NextResolve == Symbolicate

SpecResolve == InitResolve /\ [][NextResolve]_vars

(***************************************************************************)
(* SpecCache: the store driven directly                                    *)
(***************************************************************************)
InitCache ==
    /\ symbols = <<>> /\ addresses = <<>> /\ symbolicated = Pending
    /\ db = <<>>
    /\ now = 0 /\ ticks = 0
    /\ got = NoGet
    /\ put_log = <<>>
    /\ PipelineInit
    /\ EvictInit
    /\ LookupInit

\* put(k, T, ttl)
CachePut(k, T, hours) ==
    /\ db' = cache_symbols(db, k, T, hours, now)
    /\ put_log' = [x \in DOMAIN put_log \cup {k} |->
                      IF x = k THEN [data |-> T, at |-> now, hours |-> hours, any |-> TRUE]
                      ELSE put_log[x]]
    /\ UNCHANGED <<now, ticks, got, resolver_vars, pipeline_vars, evict_vars, lookup_vars>>

\* get(k)
CacheGet(k) ==
    /\ got' = [key |-> k, at |-> now, done |-> TRUE,
               result |-> get_cached_symbols(db, k, now),
               after |-> IF k \in DOMAIN put_log THEN put_log[k] ELSE NoPut]
    /\ UNCHANGED <<db, now, ticks, put_log, resolver_vars, pipeline_vars, evict_vars, lookup_vars>>

NextCache ==
    \/ \E k \in StoreKeys, T \in StoreTables, h \in HoursChoices : CachePut(k, T, h)
    \/ \E k \in StoreKeys : CacheGet(k)
    \/ \E d \in TickChoices : Tick(d)

SpecCache == InitCache /\ [][NextCache]_vars

(***************************************************************************)
(* The firmware listing of the S3 managers and its time to live            *)
(***************************************************************************)
\* _cache_ttl in seconds (internal_s3_manager.py 53, s3_download_manager.py 41)
CACHE_TTL == [m \in Managers |-> IF m = "internal" THEN 1800 ELSE 3600]

\* timedelta.seconds of a non-negative timedelta: the seconds within the last
\* day, the whole days are in timedelta.days
timedelta_seconds(total) == total % 86400

\* the condition of _ensure_cache_fresh (lines 418-419 and 147-148)
stale(timestamp, t, ttl) ==
    ~timestamp.set \/ timedelta_seconds(t - timestamp.at) > ttl

\* _ensure_cache_fresh as find_ipsw and list_available_ipsw call it, with
\* refresh_bucket_cache: InternalS3Manager stamps the listing after every
\* refresh (161), S3IPSWDownloader after a listing with status 200 (57-59)
EnsureCacheFresh(m, listed) ==
    /\ m = "internal" => listed
    /\ LET timestamp == cache_timestamp[m]
           refresh == stale(timestamp, wall, CACHE_TTL[m])
       IN  /\ fresh' = [manager |-> m,
                        elapsed |-> IF timestamp.set THEN wall - timestamp.at ELSE 0,
                        refreshed |-> refresh]
           /\ cache_timestamp' = IF refresh /\ listed
                                 THEN [cache_timestamp EXCEPT ![m] = [set |-> TRUE, at |-> wall]]
                                 ELSE cache_timestamp
    /\ UNCHANGED <<wall, bucket_cache, wanted, located, signature_vars, resolver_vars,
                   store_vars, pipeline_vars, evict_vars, watch_vars>>

\* the time between two calls
ElapseChoices == {900, 1801, 3601, 86400 + 600, 86400 + 1801}

Elapse(d) ==
    /\ ticks < MaxTicks
    /\ ticks' = ticks + 1
    /\ wall' = wall + d
    /\ UNCHANGED <<db, now, got, put_log, cache_timestamp, fresh, bucket_cache, wanted,
                   located, signature_vars, resolver_vars, pipeline_vars, evict_vars,
                   watch_vars>>

InitFresh == Init

NextFresh ==
    \/ \E m \in Managers, listed \in BOOLEAN : EnsureCacheFresh(m, listed)
    \/ \E d \in ElapseChoices : Elapse(d)

SpecFresh == InitFresh /\ [][NextFresh]_vars

(***************************************************************************)
(* Device names and the locator operations of the S3 managers.  A name is  *)
(* a sequence of one-character strings.                                    *)
(***************************************************************************)
UpperCase == <<"A","B","C","D","E","F","G","H","I","J","K","L","M",
               "N","O","P","Q","R","S","T","U","V","W","X","Y","Z">>
LowerCase == <<"a","b","c","d","e","f","g","h","i","j","k","l","m",
               "n","o","p","q","r","s","t","u","v","w","x","y","z">>
DigitChars == {"0","1","2","3","4","5","6","7","8","9"}

\* str.lower()
str_lower(s) ==
    [i \in 1..Len(s) |->
        IF \E j \in 1..26 : UpperCase[j] = s[i]
        THEN LowerCase[CHOOSE j \in 1..26 : UpperCase[j] = s[i]]
        ELSE s[i]]

\* s.replace(c, '') and s.replace(a, b) for one-character strings
str_remove(s, c) == SelectSeq(s, LAMBDA x : x # c)
str_replace(s, a, b) == [i \in 1..Len(s) |-> IF s[i] = a THEN b ELSE s[i]]

\* sub in s
str_in(sub, s) ==
    \E i \in 1..(Len(s) - Len(sub) + 1) : SubSeq(s, i, i + Len(sub) - 1) = sub

\* re.sub(r'[^a-z0-9]', '', s)
sub_non_alnum(s) ==
    SelectSeq(s, LAMBDA x : x \in DigitChars \/ \E j \in 1..26 : LowerCase[j] = x)

RECURSIVE DigitRuns(_, _)
\* re.findall(r'\d+', s); run is the digit run being read
DigitRuns(s, run) ==
    IF s = <<>> THEN (IF run = <<>> THEN <<>> ELSE <<run>>)
    ELSE IF Head(s) \in DigitChars THEN DigitRuns(Tail(s), Append(run, Head(s)))
    ELSE (IF run = <<>> THEN <<>> ELSE <<run>>) \o DigitRuns(Tail(s), <<>>)

findall_digits(s) == DigitRuns(s, <<>>)

RECURSIVE SplitAt(_, _, _)
\* s.split(c); part is the part being read
SplitAt(s, c, part) ==
    IF s = <<>> THEN <<part>>
    ELSE IF Head(s) = c THEN <<part>> \o SplitAt(Tail(s), c, <<>>)
    ELSE SplitAt(Tail(s), c, Append(part, Head(s)))

str_split(s, c) == SplitAt(s, c, <<>>)
str_count(s, c) == Len(SelectSeq(s, LAMBDA x : x = c))

RECURSIVE str_strip(_)
\* s.strip() for blanks
str_strip(s) ==
    IF s # <<>> /\ Head(s) = " " THEN str_strip(Tail(s))
    ELSE IF s # <<>> /\ s[Len(s)] = " " THEN str_strip(SubSeq(s, 1, Len(s) - 1))
    ELSE s

isdigit(s) == s # <<>> /\ \A i \in 1..Len(s) : s[i] \in DigitChars

IPHONE == <<"i","p","h","o","n","e">>
IPAD == <<"i","p","a","d">>

\* InternalS3Manager._device_matches (internal_s3_manager.py 482-503)
internal_device_matches(s3_device, target_device) ==
    LET norm(x) == str_remove(str_remove(str_remove(str_remove(str_lower(x),
                       "_"), "-"), " "), ",")
        s3_norm == norm(s3_device)
        target_norm == norm(target_device)
        s3_nums == findall_digits(s3_device)
        target_nums == findall_digits(target_device)
    IN  IF s3_norm = target_norm THEN TRUE
        ELSE IF /\ str_in(IPHONE, s3_norm) /\ str_in(IPHONE, target_norm)
                /\ s3_nums # <<>> /\ target_nums # <<>>
        THEN s3_nums = target_nums
        ELSE str_in(IPAD, s3_norm) /\ str_in(IPAD, target_norm)

\* S3IPSWDownloader._device_matches (s3_download_manager.py 175-193)
downloader_device_matches(s3_device, target_device) ==
    LET norm(x) == str_remove(str_remove(str_remove(str_lower(x), "_"), "-"), " ")
        s3_norm == norm(s3_device)
        target_norm == norm(target_device)
        s3_nums == findall_digits(s3_device)
        target_nums == findall_digits(target_device)
    IN  IF s3_norm = target_norm THEN TRUE
        ELSE IF /\ str_in(IPHONE, s3_norm) /\ str_in(IPHONE, target_norm)
                /\ s3_nums # <<>> /\ target_nums # <<>>
        THEN s3_nums = target_nums
        ELSE FALSE

RECURSIVE JoinModels(_, _)
\* the loop of lines 381-399 over the comma-separated parts; current is
\* current_device
JoinModels(parts, current) ==
    IF parts = <<>> THEN (IF current # <<>> THEN <<current>> ELSE <<>>)
    ELSE LET part == str_strip(Head(parts))
         IN  IF current # <<>>
             THEN IF isdigit(part)
                  THEN <<current \o <<",">> \o part>> \o JoinModels(Tail(parts), <<>>)
                  ELSE <<current>> \o JoinModels(Tail(parts), part)
             ELSE JoinModels(Tail(parts), part)

\* _parse_ipsw_filename (373-407) from the first group of the pattern on: the
\* device string and the list of individual device models
device_models(device_part) ==
    IF str_in(<<",">>, device_part) /\ str_count(device_part, ",") # 1
    THEN JoinModels(str_split(device_part, ","), <<>>)
    ELSE <<device_part>>

\* _process_ipsw_file (318-344) for a file name <device>_<version>_<build>_Restore.ipsw
parse_ipsw_filename(name) ==
    LET device_part == str_replace(name.device, "_", " ")
    IN  [key |-> name, device |-> device_part, device_models |-> device_models(device_part),
         version |-> name.version, build |-> name.build]

NoEntry == [key |-> <<>>, device |-> <<>>, device_models |-> <<>>, version |-> "",
            build |-> ""]

\* first entry of the listing that satisfies the test at its index
FirstEntry(files, hits) ==
    IF hits = {} THEN NoEntry
    ELSE files[CHOOSE i \in hits : \A j \in hits : i <= j]

\* InternalS3Manager.find_ipsw (422-480)
internal_find_ipsw(files, device_model, os_version, build_number) ==
    LET device_candidates == { str_remove(str_lower(device_model), " "),
                               sub_non_alnum(str_lower(device_model)) }
        device_match(ipsw_device) ==
            LET cached_device_norm == str_remove(str_remove(str_lower(ipsw_device), " "), "_")
                cached_device_norm_no_comma == sub_non_alnum(cached_device_norm)
            IN  \E candidate \in device_candidates :
                    \/ str_in(candidate, cached_device_norm)
                    \/ str_in(candidate, cached_device_norm_no_comma)
        match(f) ==
            /\ f.version = os_version
            /\ (build_number = "" \/ f.build = build_number)
            /\ IF f.device_models # <<>>
               THEN \E i \in 1..Len(f.device_models) : device_match(f.device_models[i])
               ELSE device_match(f.device)
    IN  FirstEntry(files, {i \in 1..Len(files) : match(files[i])})

\* S3IPSWDownloader.find_ipsw (151-173): the exact cache keys, then the fuzzy
\* match; a cache key is f"{device}_{version}_{build}" and the device is the
\* first group of the file name as it stands (s3_download_manager.py 123-127)
downloader_find_ipsw(files, device_model, os_version, build_number) ==
    LET exact == {i \in 1..Len(files) :
                     /\ build_number # ""
                     /\ files[i].key.device = device_model
                     /\ files[i].version = os_version
                     /\ files[i].build = build_number}
        fuzzy == {i \in 1..Len(files) :
                     /\ downloader_device_matches(files[i].key.device, device_model)
                     /\ files[i].version = os_version
                     /\ (build_number = "" \/ files[i].build = build_number)}
    IN  IF exact # {} THEN FirstEntry(files, exact) ELSE FirstEntry(files, fuzzy)

\* InternalS3Manager.list_available_ipsw (702-725) with a device filter; the
\* stable sort by (device, version) keeps the order of the entries of one
\* device and version
internal_list_available_ipsw(files, device_filter) ==
    SelectSeq(files, LAMBDA f : internal_device_matches(f.device, device_filter))

\* the artifact selection of auto_ensure_symbols_available (559-579)
select_ipsw(available_ipsws, device_model, ios_version, build_number) ==
    LET same == {i \in 1..Len(available_ipsws) :
                    /\ available_ipsws[i].device = device_model
                    /\ available_ipsws[i].version = ios_version}
        exact == {i \in same : build_number = "" \/ available_ipsws[i].build = build_number}
    IN  IF exact # {} THEN FirstEntry(available_ipsws, exact)
        ELSE FirstEntry(available_ipsws, same)

\* the entry download_ipsw (505-516) looks up when auto_ensure_symbols_available
\* calls it with build_number or matching_ipsw.get('build') (custom_symbol_server.py
\* 583-588); NoEntry is its "IPSW not found in internal S3"
download_file_info(files, available_ipsws, device_model, ios_version, build_number) ==
    LET matching == select_ipsw(available_ipsws, device_model, ios_version, build_number)
    IN  internal_find_ipsw(files, device_model, ios_version,
                           IF build_number # "" THEN build_number ELSE matching.build)

\* device names of requests and of file names
RequestDevices == { <<"i","P","h","o","n","e","1","5",",","2">>,
                    <<"i","P","h","o","n","e","_","1","5","_","2">>,
                    <<"i","P","h","o","n","e","1","5">>,
                    <<"i","P","a","d","1","3",",","1">>,
                    <<"i","P","a","d","1","4",",","2">>,
                    <<"i","P","h","o","n","e","1","2",",","5">> }
FileDevices == { <<"i","P","h","o","n","e","1","5",",","2">>,
                 <<"i","P","h","o","n","e","_","1","5","_","2">>,
                 <<"i","P","a","d","1","3",",","1">>,
                 <<"i","P","h","o","n","e","1","2",",","3",",","i","P","h","o","n","e","1","2",",","5">> }
Versions == {"18.5", "17.4"}
Builds == {"22F76", "21E219"}
FileNames == [device : FileDevices, version : Versions, build : Builds]

\* listings of at most MaxFiles distinct files
Listings ==
    UNION { { l \in [1..n -> FileNames] : \A i, j \in 1..n : i # j => l[i] # l[j] }
            : n \in 1..MaxFiles }

InitDevices ==
    /\ symbols = <<>> /\ addresses = <<>> /\ symbolicated = Pending
    /\ db = <<>>
    /\ now = 0 /\ ticks = 0
    /\ got = NoGet
    /\ put_log = <<>>
    /\ PipelineInit
    /\ EvictInit
    /\ wall = 0
    /\ cache_timestamp = [m \in Managers |-> NoTimestamp]
    /\ fresh = NoFresh
    /\ \E l \in Listings : bucket_cache = [i \in 1..Len(l) |-> parse_ipsw_filename(l[i])]
    /\ wanted \in [device : RequestDevices, version : Versions, build : Builds \cup {""}]
    /\ located = NotLocated
    /\ SignaturesInit
    /\ WatchInit

\* the locator operations applied to the request
Locate ==
    /\ ~located.done
    /\ LET listing == internal_list_available_ipsw(bucket_cache, wanted.device)
       IN  located' =
             [done |-> TRUE,
              internal_matches |-> [i \in 1..Len(bucket_cache) |->
                  internal_device_matches(bucket_cache[i].device, wanted.device)],
              downloader_matches |-> [i \in 1..Len(bucket_cache) |->
                  downloader_device_matches(bucket_cache[i].key.device, wanted.device)],
              internal_find |-> internal_find_ipsw(bucket_cache, wanted.device,
                                                   wanted.version, wanted.build),
              downloader_find |-> downloader_find_ipsw(bucket_cache, wanted.device,
                                                       wanted.version, wanted.build),
              listing |-> listing,
              selected |-> select_ipsw(listing, wanted.device, wanted.version,
                                       wanted.build),
              download |-> download_file_info(bucket_cache, listing, wanted.device,
                                              wanted.version, wanted.build)]
    /\ UNCHANGED <<bucket_cache, wanted, wall, cache_timestamp, fresh, signature_vars,
                   resolver_vars, store_vars, pipeline_vars, evict_vars, watch_vars>>

NextDevices == Locate

SpecDevices == InitDevices /\ [][NextDevices]_vars

(***************************************************************************)
(* refresh_bucket_cache of InternalS3Manager (138-165), called by the file *)
(* watcher (s3_file_watcher.py 105-112), beside a find_ipsw call of a      *)
(* request.  Both are coroutines of one event loop: an action is the code  *)
(* between two awaits.  The parsers await only _process_ipsw_file, which   *)
(* never suspends, so a parse is one step.                                 *)
(***************************************************************************)
MaxRefreshes == 2

\* the file names the bucket answers with, and the listings of a response
RefreshNames ==
    { n \in FileNames : n.device = <<"i","P","h","o","n","e","1","5",",","2">>
                        /\ n.version = "18.5" }
RefreshListings ==
    {<<>>} \cup { l \in Listings : \A i \in 1..Len(l) : l[i] \in RefreshNames }

\* _parse_s3_xml_listing (247-272) and _parse_html_listing (288-316):
\* self._bucket_cache = {} and one entry per .ipsw name of the response
parse_listing(l) == [i \in 1..Len(l) |-> parse_ipsw_filename(l[i])]

\* what a GET of a listing URL ends with: an exception or a status other than
\* 200, an XML document, or an HTML page
ListingOutcomes == {"error", "xml", "html"}

INTERNAL == "internal"

InitRefresh ==
    /\ symbols = <<>> /\ addresses = <<>> /\ symbolicated = Pending
    /\ db = <<>>
    /\ now = 0 /\ ticks = 0
    /\ got = NoGet
    /\ put_log = <<>>
    /\ PipelineInit
    /\ EvictInit
    /\ wall = 0
    /\ cache_timestamp = [m \in Managers |->
                             IF m = INTERNAL THEN [set |-> TRUE, at |-> 0] ELSE NoTimestamp]
    /\ fresh = NoFresh
    /\ \E l \in RefreshListings : bucket_cache = parse_listing(l)
    /\ wanted \in [device : {<<"i","P","h","o","n","e","1","5",",","2">>},
                   version : {"18.5"}, build : Builds \cup {""}]
    /\ located = NotLocated
    /\ SignaturesInit
    /\ WatchInit

\* helper of the refresh actions: what they leave alone
RefreshFrame ==
    UNCHANGED <<wall, fresh, wanted, signature_vars, watcher, resolver_vars, store_vars,
                pipeline_vars, evict_vars>>

\* _check_for_changes (105-109) calls refresh_bucket_cache, which suspends in
\* the GET of _try_s3_api_listing (184-187)
RefreshStart ==
    /\ refresh_task.pc = "idle"
    /\ refresh_task.runs < MaxRefreshes
    /\ refresh_task' = [NoRefresh EXCEPT !.pc = "s3api", !.runs = refresh_task.runs,
                                         !.before = bucket_cache,
                                         !.stamp_before = cache_timestamp[INTERNAL]]
    /\ UNCHANGED <<bucket_cache, cache_timestamp, located>>
    /\ RefreshFrame

\* _try_s3_api_listing (167-207) from the response on: XML is parsed and the
\* method succeeded; other content is parsed as HTML and the method succeeded
\* when the cache is not empty; then the next method's GET (209-232) or the
\* end of the client block
TryS3ApiListing(outcome, l) ==
    /\ refresh_task.pc = "s3api"
    /\ outcome = "error" => l = <<>>
    /\ bucket_cache' = IF outcome = "error" THEN bucket_cache ELSE parse_listing(l)
    /\ refresh_task' = [refresh_task EXCEPT
           !.pc = IF outcome = "xml" \/ (outcome = "html" /\ Len(parse_listing(l)) > 0)
                  THEN "stamp" ELSE "web1",
           !.answered = @ \/ outcome # "error"]
    /\ UNCHANGED <<cache_timestamp, located>>
    /\ RefreshFrame

WebUrls == <<"web1", "web2", "web3">>

\* _try_minio_web_interface (209-245), one URL of the loop from its response on
TryMinioWebInterface(i, outcome, l) ==
    /\ refresh_task.pc = WebUrls[i]
    /\ outcome # "xml"
    /\ outcome = "error" => l = <<>>
    /\ bucket_cache' = IF outcome = "error" THEN bucket_cache ELSE parse_listing(l)
    /\ refresh_task' = [refresh_task EXCEPT
           !.pc = IF outcome = "html" /\ Len(parse_listing(l)) > 0 THEN "stamp"
                  ELSE IF i < Len(WebUrls) THEN WebUrls[i + 1] ELSE "basic",
           !.answered = @ \/ outcome # "error"]
    /\ UNCHANGED <<cache_timestamp, located>>
    /\ RefreshFrame

\* _try_basic_auth_listing (247-260) from its response on
TryBasicAuthListing(outcome, l) ==
    /\ refresh_task.pc = "basic"
    /\ outcome # "xml"
    /\ outcome = "error" => l = <<>>
    /\ bucket_cache' = IF outcome = "error" THEN bucket_cache ELSE parse_listing(l)
    /\ refresh_task' = [refresh_task EXCEPT !.pc = "stamp",
                                            !.answered = @ \/ outcome # "error"]
    /\ UNCHANGED <<cache_timestamp, located>>
    /\ RefreshFrame

\* lines 161-162, after the client block is left
RefreshStamp ==
    /\ refresh_task.pc = "stamp"
    /\ cache_timestamp' = [cache_timestamp EXCEPT ![INTERNAL] = [set |-> TRUE, at |-> wall]]
    /\ refresh_task' = [refresh_task EXCEPT !.pc = "idle", !.runs = @ + 1,
                                            !.finished = TRUE, !.after = bucket_cache]
    /\ UNCHANGED <<bucket_cache, located>>
    /\ RefreshFrame

\* find_ipsw (422-480) of a request while the listing is fresh:
\* _ensure_cache_fresh returns without suspending and the loop over
\* _bucket_cache.values() runs to its end
FindIpsw ==
    /\ ~stale(cache_timestamp[INTERNAL], wall, CACHE_TTL[INTERNAL])
    /\ LET file_info == internal_find_ipsw(bucket_cache, wanted.device, wanted.version,
                                           wanted.build)
       IN  /\ located' = [done |-> TRUE, internal_find |-> file_info,
                          during |-> refresh_task.pc]
           /\ refresh_task' = IF refresh_task.pc = "idle" THEN refresh_task
                              ELSE [refresh_task EXCEPT !.reads = @ \cup {file_info # NoEntry}]
    /\ UNCHANGED <<bucket_cache, cache_timestamp>>
    /\ RefreshFrame

\* time passes between two checks of the watcher (check_interval)
CheckInterval ==
    /\ refresh_task.pc = "idle"
    /\ Elapse(900)
    /\ UNCHANGED watch_vars

NextRefresh ==
    \/ RefreshStart
    \/ \E o \in ListingOutcomes, l \in RefreshListings : TryS3ApiListing(o, l)
    \/ \E i \in 1..Len(WebUrls), o \in ListingOutcomes, l \in RefreshListings :
          TryMinioWebInterface(i, o, l)
    \/ \E o \in ListingOutcomes, l \in RefreshListings : TryBasicAuthListing(o, l)
    \/ RefreshStamp
    \/ FindIpsw
    \/ CheckInterval

SpecRefresh == InitRefresh /\ [][NextRefresh]_vars

(***************************************************************************)
(* The global file watcher (s3_file_watcher.py 281-304).  start_file_watcher*)
(* has no await: it runs to its end in one step, and the task it creates   *)
(* begins at a later turn of the event loop.                               *)
(***************************************************************************)
MaxWatchers == 3

\* S3FileWatcher.__init__ (line 55: self.running = False) and the task of
\* asyncio.create_task, not yet begun
NewWatcher == [running |-> FALSE, task |-> "scheduled"]

WatcherFrame ==
    UNCHANGED <<refresh_task, wall, cache_timestamp, fresh, bucket_cache, wanted, located,
                signature_vars, resolver_vars, store_vars, pipeline_vars, evict_vars>>

\* start_file_watcher (283-295); a call that finds a running instance returns
\* at line 289 and changes nothing
StartFileWatcher ==
    /\ Len(watcher.objects) < MaxWatchers
    /\ ~(watcher.instance # 0 /\ watcher.objects[watcher.instance].running)
    /\ watcher' = [instance |-> Len(watcher.objects) + 1,
                   objects |-> Append(watcher.objects, NewWatcher)]
    /\ WatcherFrame

\* start_monitoring (57-63) begins: running = True, then it suspends in
\* _initial_scan
StartMonitoring(i) ==
    /\ watcher.objects[i].task = "scheduled"
    /\ watcher' = [watcher EXCEPT !.objects[i] = [running |-> TRUE, task |-> "scan"]]
    /\ WatcherFrame

\* lines 65-72: `while self.running` is tested after the initial scan and
\* after each sleep; the loop suspends in _check_for_changes and in
\* asyncio.sleep
MonitoringLoop(i) ==
    /\ watcher.objects[i].task \in {"scan", "check", "sleep"}
    /\ watcher' = [watcher EXCEPT !.objects[i].task =
          IF @ = "check" THEN "sleep"
          ELSE IF watcher.objects[i].running THEN "check" ELSE "ended"]
    /\ WatcherFrame

\* stop_file_watcher (297-304) with stop_monitoring (74-77)
StopFileWatcher ==
    /\ watcher.instance # 0
    /\ watcher' = [instance |-> 0,
                   objects |-> [watcher.objects EXCEPT ![watcher.instance].running = FALSE]]
    /\ WatcherFrame

NextWatcher ==
    \/ StartFileWatcher
    \/ \E i \in 1..Len(watcher.objects) : StartMonitoring(i)
    \/ \E i \in 1..Len(watcher.objects) : MonitoringLoop(i)
    \/ StopFileWatcher

SpecWatcher == Init /\ [][NextWatcher]_vars

(***************************************************************************)
(* Signature resolution (app.py): the version key of kernel_signatures     *)
(* that symbolicate_kernel_address selects                                 *)
(***************************************************************************)
\* s.startswith(prefix)
str_startswith(s, prefix) == Len(prefix) <= Len(s) /\ SubSeq(s, 1, Len(prefix)) = prefix

\* lines 226-237 of symbolicate_kernel_address: the first key of the dict that
\* the version starts with or contains; None when there is no such key, no
\* signature or no version
select_version_key(signatures, version) ==
    LET hits == {i \in 1..Len(signatures) :
                    str_startswith(version, signatures[i]) \/ str_in(signatures[i], version)}
    IN  IF signatures = <<>> \/ version = <<>> \/ hits = {}
        THEN [done |-> TRUE, found |-> FALSE, key |-> <<>>]
        ELSE [done |-> TRUE, found |-> TRUE,
              key |-> signatures[CHOOSE i \in hits : \A j \in hits : i <= j]]

\* int(s, 16): an optional 0x prefix, then hex digits; ValueError otherwise
int_base16(s) ==
    LET digits == IF StartsWith0x(s) THEN SubSeq(s, 3, Len(s)) ELSE s
    IN  IF digits = <<>> THEN [ok |-> FALSE, val |-> 0] ELSE ParseDigits(digits, 16, 0)

SIG_TOLERANCE == 4096   \* 0x1000, lines 255 and 272

\* lines 255 and 272: abs(addr_int - func_addr) < 0x1000
in_function_range(addr_int, func_addr) ==
    (IF addr_int >= func_addr THEN addr_int - func_addr ELSE func_addr - addr_int)
        < SIG_TOLERANCE

\* lines 241-283 once the version key is chosen: the first function of xnu in
\* dict order that is in range, then the first of the kexts; None when the
\* address does not parse or no function is in range.  A function is
\* <<name, address>>, a kext function <<kext, name, address>>.
search_signatures(sigs, address) ==
    LET parsed == int_base16(address)
        addr_int == parsed.val
        xnu_hits == {i \in 1..Len(sigs.xnu) :
                        in_function_range(addr_int, int_base16(sigs.xnu[i][2]).val)}
        kext_hits == {i \in 1..Len(sigs.kexts) :
                         in_function_range(addr_int, int_base16(sigs.kexts[i][3]).val)}
    IN  IF ~parsed.ok THEN NoKernelSymbol
        ELSE IF xnu_hits # {}
        THEN LET f == sigs.xnu[CHOOSE i \in xnu_hits : \A j \in xnu_hits : i <= j]
             IN  [found |-> TRUE, symbol |-> <<f[1]>>,
                  offset |-> addr_int - int_base16(f[2]).val, type |-> "kernel_function"]
        ELSE IF kext_hits # {}
        THEN LET f == sigs.kexts[CHOOSE i \in kext_hits : \A j \in kext_hits : i <= j]
             IN  [found |-> TRUE, symbol |-> <<f[1], "::", f[2]>>,
                  offset |-> addr_int - int_base16(f[3]).val, type |-> "kext_function"]
        ELSE NoKernelSymbol

\* function tables of the signature files and addresses of crash frames
FunctionAddrs == {HexAddr(8192), HexAddr(12288)}
XnuFunctions ==
    UNION { { t \in [1..n -> {"f", "g"} \X FunctionAddrs] :
                \A i, j \in 1..n : i # j => t[i][1] # t[j][1] } : n \in 0..MaxEntries }
KextFunctions == {<<>>} \cup { <<<<"k", "h", a>>>> : a \in FunctionAddrs }
KernelAddresses == { HexAddr(4096), HexAddr(4097), HexAddr(8191), HexAddr(8192),
                     HexAddr(12287), HexAddr(16383), HexAddr(16384), <<"z">> }

\* the names of the signature directories and the versions of crash reports
VersionStrings == { <<"1","8">>,
                    <<"1","8",".","5">>,
                    <<"1","8",".","5",".","1">>,
                    <<"1","7",".","4">>,
                    <<"8",".","5">> }

\* load_kernel_signatures (43-84): at most MaxVersions distinct keys, in the
\* order glob found them
SignatureKeys ==
    UNION { { k \in [1..n -> VersionStrings] : \A i, j \in 1..n : i # j => k[i] # k[j] }
            : n \in 0..MaxVersions }

InitSignatures ==
    /\ symbols = <<>> /\ addresses = <<>> /\ symbolicated = Pending
    /\ db = <<>>
    /\ now = 0 /\ ticks = 0
    /\ got = NoGet
    /\ put_log = <<>>
    /\ PipelineInit
    /\ EvictInit
    /\ wall = 0
    /\ cache_timestamp = [m \in Managers |-> NoTimestamp]
    /\ fresh = NoFresh
    /\ bucket_cache = <<>>
    /\ wanted = NoWanted
    /\ located = NotLocated
    /\ kernel_signatures \in SignatureKeys
    /\ requested_os_version \in VersionStrings
    /\ version_key = NoVersionKey
    /\ signature_functions \in [xnu : XnuFunctions, kexts : KextFunctions]
    /\ kernel_address \in KernelAddresses
    /\ kernel_symbol = NoKernelSymbol
    /\ WatchInit

SymbolicateKernelAddress ==
    /\ ~version_key.done
    /\ version_key' = select_version_key(kernel_signatures, requested_os_version)
    /\ kernel_symbol' =
          IF version_key'.found
          THEN search_signatures(signature_functions, kernel_address)
          ELSE NoKernelSymbol
    /\ UNCHANGED <<kernel_signatures, requested_os_version, signature_functions,
                   kernel_address, wall, cache_timestamp, fresh,
                   bucket_cache, wanted, located, resolver_vars, store_vars,
                   pipeline_vars, evict_vars, watch_vars>>

NextSignatures == SymbolicateKernelAddress

SpecSignatures == InitSignatures /\ [][NextSignatures]_vars

(***************************************************************************)
(* S3OptimizedManager (s3_optimized_manager.py): the firmware cache and     *)
(* its eviction                                                            *)
(***************************************************************************)
\* cache keys (get_cache_key, 72-75) and the size in GB of the firmware file
\* each stands for
IpswKeys == {"a1", "b2"}
IpswSize == [k \in IpswKeys |-> 2]

\* the settings of lines 28-29, read from the environment: a budget of 3 GB
\* (CACHE_SIZE_GB=3) and the default age threshold
CACHE_SIZE_GB == 3
CLEANUP_AFTER_HOURS == 24

RECURSIVE SumSizes(_, _)
SumSizes(dirs, keys) ==
    IF keys = {} THEN 0
    ELSE LET k == CHOOSE x \in keys : TRUE
         IN  dirs[k] + SumSizes(dirs, keys \ {k})

\* sum(f.stat().st_size for f in self.cache_path.rglob('*') if f.is_file())
cache_usage(dirs) == SumSizes(dirs, DOMAIN dirs)

\* lines 221-237: the directories of cache_path that the access log knows
cached_items(dirs, log) ==
    { [cache_key |-> k, last_access |-> log[k].last_access, size_gb |-> dirs[k],
       access_count |-> log[k].access_count] : k \in DOMAIN dirs \cap DOMAIN log }

\* line 240: the sort key (access_count, last_access)
SortKeyLeq(x, y) ==
    \/ x.access_count < y.access_count
    \/ x.access_count = y.access_count /\ x.last_access <= y.last_access

\* the orders list.sort can leave the items in: iterdir gives the directories
\* in any order and equal keys keep it
SortedItems(items) ==
    { s \in [1..Cardinality(items) -> items] :
        \A i, j \in DOMAIN s : i < j => (s[i] # s[j] /\ SortKeyLeq(s[i], s[j])) }

\* lines 248-250: age_hours > cleanup_after_hours or access_count == 1
Removable(item, t) ==
    (t - item.last_access) > CLEANUP_AFTER_HOURS \/ item.access_count = 1

Without(f, k) == [x \in DOMAIN f \ {k} |-> f[x]]
With(f, k, v) == [x \in DOMAIN f \cup {k} |-> IF x = k THEN v ELSE f[x]]

\* lines 219-240, the start of a pass: the items are collected and sorted
\* (one pass runs at a time here)
StartPass(t, k, dirs, required) ==
    /\ \A u \in Threads : thread[u].pc \notin {"cleanup", "unlog"}
    /\ \E items \in SortedItems(cached_items(dirs, access_log)) :
        thread' = [thread EXCEPT ![t] =
                      [pc |-> "cleanup", key |-> k, items |-> items, i |-> 1,
                       freed |-> 0, required |-> required]]

\* should_cache_file (156-162)
should_cache_file(log, k) == k \in DOMAIN log /\ log[k].access_count > 1

\* get_ipsw_path (77-114) for a firmware file of the S3 mount: the access is
\* logged, and a file accessed more than once that is not in the cache is
\* handed to a new cache_worker thread w
GetIpswPath(k, w) ==
    /\ LET count == IF k \in DOMAIN access_log THEN access_log[k].access_count ELSE 0
           log == With(access_log, k, [last_access |-> now, access_count |-> count + 1])
           cached == k \in DOMAIN cache_dirs /\ cache_dirs[k] > 0
       IN  /\ count < MaxAccess
           /\ access_log' = log
           /\ IF ~cached /\ should_cache_file(log, k)
              THEN /\ thread[w].pc = "idle"
                   /\ thread' = [thread EXCEPT ![w] = [IdleThread EXCEPT !.pc = "start", !.key = k]]
              ELSE UNCHANGED thread
    /\ UNCHANGED <<cache_dirs, metadata_file, resolver_vars, store_vars, pipeline_vars, lookup_vars>>

\* cache_worker (166-176) and has_enough_space (189-200): the directory is
\* made; a file not yet in it is copied when it fits, after a cleanup pass
\* when it does not
WorkerCheck(w) ==
    /\ thread[w].pc = "start"
    /\ LET k == thread[w].key
           dirs == IF k \in DOMAIN cache_dirs THEN cache_dirs ELSE With(cache_dirs, k, 0)
           required == IpswSize[k]
       IN  /\ cache_dirs' = dirs
           /\ IF dirs[k] > 0
              THEN thread' = [thread EXCEPT ![w] = IdleThread]
              ELSE IF cache_usage(dirs) + required > CACHE_SIZE_GB
              THEN StartPass(w, k, dirs, required)
              ELSE thread' = [thread EXCEPT ![w].pc = "copy", ![w].required = required]
    /\ UNCHANGED <<access_log, metadata_file, resolver_vars, store_vars, pipeline_vars, lookup_vars>>

\* background_cleanup (266-273): cleanup_cache() once an hour
BackgroundCleanup ==
    /\ thread[Background].pc = "idle"
    /\ StartPass(Background, "", cache_dirs, 0)
    /\ UNCHANGED <<cache_dirs, access_log, metadata_file, resolver_vars, store_vars,
                   pipeline_vars, lookup_vars>>

\* the pass of thread t is over: the loop ran out of items or broke at line 244
PassOver(t) ==
    \/ thread[t].i > Len(thread[t].items)
    \/ thread[t].required > 0 /\ thread[t].freed >= thread[t].required

\* lines 243-252, one iteration of the loop up to shutil.rmtree
CleanupStep(t) ==
    /\ thread[t].pc = "cleanup"
    /\ ~PassOver(t)
    /\ LET item == thread[t].items[thread[t].i]
       IN  IF Removable(item, now)
           THEN /\ cache_dirs' = Without(cache_dirs, item.cache_key)
                /\ thread' = [thread EXCEPT ![t].pc = "unlog"]
           ELSE /\ thread' = [thread EXCEPT ![t].i = @ + 1]
                /\ UNCHANGED cache_dirs
    /\ UNCHANGED <<access_log, metadata_file, resolver_vars, store_vars, pipeline_vars, lookup_vars>>

\* lines 254-258, the rest of the iteration: the entry of the removed item is
\* deleted from the access log
CleanupUnlog(t) ==
    /\ thread[t].pc = "unlog"
    /\ LET item == thread[t].items[thread[t].i]
       IN  /\ access_log' = Without(access_log, item.cache_key)
           /\ thread' = [thread EXCEPT ![t].pc = "cleanup", ![t].i = @ + 1,
                                       ![t].freed = @ + item.size_gb]
    /\ UNCHANGED <<cache_dirs, metadata_file, resolver_vars, store_vars, pipeline_vars, lookup_vars>>

\* lines 260-261 and, in a worker, the recheck of has_enough_space (203-207)
CleanupEnd(t) ==
    /\ thread[t].pc = "cleanup"
    /\ PassOver(t)
    /\ metadata_file' = access_log
    /\ thread' = [thread EXCEPT ![t] =
          IF t \in Workers /\ cache_usage(cache_dirs) + thread[t].required <= CACHE_SIZE_GB
          THEN [IdleThread EXCEPT !.pc = "copy", !.key = thread[t].key,
                                  !.required = thread[t].required]
          ELSE IdleThread]
    /\ UNCHANGED <<cache_dirs, access_log, resolver_vars, store_vars, pipeline_vars, lookup_vars>>

\* line 178: shutil.copy2(source_path, target_path), which fails when the
\* directory was removed meanwhile
WorkerCopy(w) ==
    /\ thread[w].pc = "copy"
    /\ cache_dirs' = IF thread[w].key \in DOMAIN cache_dirs
                     THEN With(cache_dirs, thread[w].key, IpswSize[thread[w].key])
                     ELSE cache_dirs
    /\ thread' = [thread EXCEPT ![w] = IdleThread]
    /\ UNCHANGED <<access_log, metadata_file, resolver_vars, store_vars, pipeline_vars, lookup_vars>>

\* the process is started again while no thread is at work:
\* load_cache_metadata (51-61)
Restart ==
    /\ \A t \in Threads : thread[t].pc = "idle"
    /\ access_log' = metadata_file
    /\ thread' = [t \in Threads |-> IdleThread]
    /\ UNCHANGED <<cache_dirs, metadata_file, resolver_vars, store_vars, pipeline_vars, lookup_vars>>

\* the clock is in hours: a copy or a cleanup pass takes no time on that
\* scale, so the clock advances while no thread is at work
HoursPass(d) ==
    /\ ticks < MaxTicks
    /\ \A t \in Threads : thread[t].pc = "idle"
    /\ now' = now + d
    /\ ticks' = ticks + 1
    /\ UNCHANGED <<db, got, put_log, evict_vars, resolver_vars, pipeline_vars, lookup_vars>>

InitEvict == Init

NextEvict ==
    \/ \E k \in IpswKeys, w \in Workers : GetIpswPath(k, w)
    \/ \E w \in Workers : WorkerCheck(w)
    \/ \E w \in Workers : WorkerCopy(w)
    \/ BackgroundCleanup
    \/ \E t \in Threads : CleanupStep(t)
    \/ \E t \in Threads : CleanupUnlog(t)
    \/ \E t \in Threads : CleanupEnd(t)
    \/ Restart
    \/ \E d \in {CLEANUP_AFTER_HOURS, CLEANUP_AFTER_HOURS + 1} : HoursPass(d)

SpecEvict == InitEvict /\ [][NextEvict]_vars

(***************************************************************************)
(* One auto-scan request beside the eviction manager of                    *)
(* s3_optimized_manager.py: the coroutine of the request runs on whenever  *)
(* it can, and background_cleanup starts a pass every hour (266-273)       *)
(***************************************************************************)
Scanner == "r2"
Mount == "a1"

\* the steps of auto_ensure_symbols_available for caller c
EnsureStep(c) ==
    \/ EnsureCheck(c)
    \/ EnsureCheckPattern(c)
    \/ EnsureLocate(c)
    \/ \E info_ok \in BOOLEAN : EnsureDownload(c, info_ok)
    \/ \E o \in DownloadOutcomes, info_ok \in BOOLEAN : EnsureDownloadDone(c, o, info_ok)
    \/ \E e_ok \in BOOLEAN, o \in ToolOutcomes : EnsureRecheck(c, e_ok, o)
    \/ EnsureCache(c)
    \/ EnsureFinish(c)

\* the steps of a cleanup_cache pass of thread t
PassStep(t) == CleanupStep(t) \/ CleanupUnlog(t) \/ CleanupEnd(t)

NextLive ==
    \/ \E b \in RequestBuilds : Request(Scanner, b)
    \/ EnsureCheck(Scanner)
    \/ EnsureCheckPattern(Scanner)
    \/ EnsureLocate(Scanner)
    \/ \E info_ok \in BOOLEAN : EnsureDownload(Scanner, info_ok)
    \/ \E o \in DownloadOutcomes, info_ok \in BOOLEAN : EnsureDownloadDone(Scanner, o, info_ok)
    \/ \E e_ok \in BOOLEAN, o \in ToolOutcomes : EnsureRecheck(Scanner, e_ok, o)
    \/ EnsureCache(Scanner)
    \/ EnsureFinish(Scanner)
    \/ \E w \in Workers : GetIpswPath(Mount, w)
    \/ \E w \in Workers : WorkerCheck(w)
    \/ \E w \in Workers : WorkerCopy(w)
    \/ BackgroundCleanup
    \/ \E t \in Threads : CleanupStep(t)
    \/ \E t \in Threads : CleanupUnlog(t)
    \/ \E t \in Threads : CleanupEnd(t)
    \/ HoursPass(CLEANUP_AFTER_HOURS + 1)

SpecLive ==
    /\ Init /\ [][NextLive]_vars
    /\ WF_vars(EnsureStep(Scanner))
    /\ WF_vars(BackgroundCleanup)
    /\ \A t \in Threads : WF_vars(PassStep(t))

(***************************************************************************)
(* Properties of the resolver (SpecResolve)                                *)
(***************************************************************************)
Returned == symbolicated.outcome = "returned"

\* the addresses the table holds: keys that spell an integer
TableAddrs ==
    LET parsed == [i \in 1..Len(symbols) |-> ParseKey(symbols[i][1])]
    IN  {parsed[i].val : i \in {j \in 1..Len(symbols) : parsed[j].ok}}

\* the name the table holds at address e (the last key in dict order that spells e)
NameAt(e) ==
    LET idx == {i \in 1..Len(symbols) : ParseKey(symbols[i][1]) = [ok |-> TRUE, val |-> e]}
    IN  symbols[CHOOSE i \in idx : \A j \in idx : j <= i][2]

Below(a) == {e \in TableAddrs : e <= a}

\* the rightmost entry at or below a, if there is one
Nearest(a) ==
    LET below == Below(a)
    IN  IF below = {} THEN [any |-> FALSE, at |-> 0]
        ELSE [any |-> TRUE, at |-> CHOOSE e \in below : \A f \in below : f <= e]

Requested == {addresses[i] : i \in 1..Len(addresses)}
ResultOf(a) == symbolicated.value[HexAddr(a)]

\* how a result spells "name with this offset"
NameWithOffset(name, off) ==
    IF off = 0 THEN <<name>> ELSE <<name, "+0x">> \o ToHexDigits(off)

\* C3: an address that is an entry of the table resolves to exactly that
\* entry's name with offset 0, whatever else the table holds.
C3_ExactEntryResolves ==
    Returned => LET table == TableAddrs
                IN  \A a \in Requested :
                       a \in table => ResultOf(a) = NameWithOffset(NameAt(a), 0)

\* C4: the rightmost entry at or below the address is chosen; within the
\* tolerance the result is its name with offset a - E1, at or beyond the
\* tolerance and below the smallest entry the result is Unknown.
C4_NearestWithinTolerance ==
    Returned => \A a \in Requested :
        LET n == Nearest(a)
        IN  IF ~n.any THEN ResultOf(a) = UnknownSymbol(a)
            ELSE IF a - n.at < TOLERANCE
                 THEN ResultOf(a) = NameWithOffset(NameAt(n.at), a - n.at)
                 ELSE ResultOf(a) = UnknownSymbol(a)

AtToleranceEdge(a) == LET n == Nearest(a) IN n.any /\ a - n.at = TOLERANCE
JustInsideTolerance(a) == LET n == Nearest(a) IN n.any /\ a - n.at = TOLERANCE - 1

\* C5 as stated: an address exactly TOLERANCE above the nearest preceding
\* entry resolves to that entry with offset TOLERANCE.
C5_ToleranceInclusive ==
    Returned => \A a \in Requested :
        LET n == Nearest(a)
        IN  (n.any /\ a - n.at = TOLERANCE) =>
                ResultOf(a) = NameWithOffset(NameAt(n.at), TOLERANCE)

\* C5 amended: the tolerance bound is exclusive. An address exactly TOLERANCE
\* above the nearest preceding entry resolves to Unknown, and an address
\* TOLERANCE - 1 above it resolves to that entry with offset TOLERANCE - 1.
C5_ToleranceExclusive ==
    Returned => \A a \in Requested :
        LET n == Nearest(a)
        IN  /\ (n.any /\ a - n.at = TOLERANCE) => ResultOf(a) = UnknownSymbol(a)
            /\ (n.any /\ a - n.at = TOLERANCE - 1) =>
                  ResultOf(a) = NameWithOffset(NameAt(n.at), TOLERANCE - 1)

C5_Witness ==
    /\ Returned
    /\ \E a \in Requested : AtToleranceEdge(a)
    /\ \E a \in Requested : JustInsideTolerance(a)

\* C6: resolution never raises; the result has exactly one entry per distinct
\* input address, and an address with no symbol within tolerance carries the
\* Unknown marker.
C6_ResolutionTotal ==
    /\ symbolicated.outcome # "raised"
    /\ Returned =>
        /\ DOMAIN symbolicated.value = {HexAddr(a) : a \in Requested}
        /\ Cardinality(DOMAIN symbolicated.value) = Cardinality(Requested)
        /\ \A a \in Requested :
              LET n == Nearest(a)
              IN  (~n.any \/ a - n.at >= TOLERANCE) => ResultOf(a) = UnknownSymbol(a)

C6_Witness ==
    /\ Returned
    /\ \E i \in 1..Len(symbols) : ~ParseKey(symbols[i][1]).ok
    /\ Len(addresses) = 2 /\ addresses[1] = addresses[2]
    /\ \E a \in Requested : Below(a) = {}

LiveAt(table, key, clock) ==
    /\ key \in DOMAIN table
    /\ table[key].expires_at > clock
    /\ table[key].symbol_data # <<>>

Fetched == {c \in Callers : "fetch" \in hist[c].ops}
Extracted == {c \in Callers : "extract" \in hist[c].ops}
PipelineOps == {"list", "fetch", "info", "extract", "symbolicate", "put"}

Overlap(c1, c2) == c1 \in hist[c2].overlapped \/ c2 \in hist[c1].overlapped

\* the keys ensure_available looks up for a request
EnsureKeysOf(r) ==
    {<<r.device, r.version>>}
    \cup (IF r.build # ""
          THEN {<<r.device, r.version, r.build>>, <<r.device, r.build, "unknown">>}
          ELSE {<<r.device, r.version, b>> : b \in {"22F76", "22F74", "22F75"}}
               \cup {<<r.device, b, "unknown">> : b \in {"22F76", "22F74", "22F75"}})

\* the lookup order of the key matcher: exact triple, device|version, then the
\* fallback candidates
MatcherOrder(r) ==
    (IF r.build # "" THEN << <<r.device, r.version, r.build>> >> ELSE <<>>)
    \o << <<r.device, r.version>>,
          <<r.device, r.version, "22F76">>, <<r.device, "22F76", "unknown">>,
          <<r.device, r.version, "22F74">>, <<r.device, "22F74", "unknown">>,
          <<r.device, r.version, "22F75">>, <<r.device, "22F75", "unknown">> >>

MissedAtCall(c) ==
    \A k \in EnsureKeysOf(req[c]) : ~LiveAt(hist[c].db_at_call, k, hist[c].now_at_call)

\* C1: concurrent ensure_available calls for the identical key that all start
\* from a cache miss make one download and one extraction between them, and
\* every caller gets the outcome of that one run (stated for runs in which no
\* scan_ipsw call writes the cache meanwhile).
C1_Coalescing ==
    \A c1, c2 \in Callers :
        ( /\ c1 # c2 /\ ret[c1].returned /\ ret[c2].returned
          /\ req[c1] = req[c2] /\ Overlap(c1, c2)
          /\ MissedAtCall(c1) /\ MissedAtCall(c2)
          /\ scans.called = {} )
        => /\ Cardinality(Fetched) <= 1
           /\ Cardinality(Extracted) <= 1
           /\ ret[c1].success = ret[c2].success

\* the span from the firmware lookup through the last cache write
InPipeline(c) == pc[c] \in {"download", "downloading", "recheck", "cache"}

\* C2: at most one extraction pipeline is in flight for a canonical key.
C2_OnePipelinePerKey ==
    \A c1, c2 \in Callers :
        (c1 # c2 /\ req[c1] = req[c2]) => ~(InPipeline(c1) /\ InPipeline(c2))

RECURSIVE FirstLive(_, _, _)
FirstLive(order, table, clock) ==
    IF order = <<>> THEN <<>>
    ELSE IF LiveAt(table, Head(order), clock)
         THEN json_loads(table[Head(order)].symbol_data)
         ELSE FirstLive(Tail(order), table, clock)

\* C9: resolution uses the table of the first live key in the order exact
\* triple, device|version, fallback candidates: when the first lookup of
\* symbolicate_crash settles on a table, it is the table that order selects in
\* the cache as it is at that moment.
C9_LookupOrder ==
    [][\A c \in Callers :
          (pc[c] = "lookup" /\ used'[c].decided)
          => used'[c].data = FirstLive(MatcherOrder(req[c]), db, now)]_vars

\* C10: when an extraction pipeline returns success, the key and every alias
\* it cached are live and return one and the same table.
C10_AliasesAgree ==
    [][\A c \in Callers :
          (pc[c] = "meta" /\ pc'[c] # "meta")
          => \A i, j \in 1..Len(loc[c].cache_keys) :
                /\ LiveAt(db, loc[c].cache_keys[i], now)
                /\ db[loc[c].cache_keys[i]].symbol_data
                      = db[loc[c].cache_keys[j]].symbol_data]_vars

\* a call of auto_ensure_symbols_available returns in this step
ReturnsNow(c) == ~ret[c].returned /\ ret'[c].returned

\* C11: a call that ends in failure has written nothing to the cache: the
\* step in which it returns leaves every record as it is, and no earlier step
\* of the call was a cache write, so the records that existed before the call
\* keep their table and their expiry.
C11_FailureLeavesCache ==
    [][\A c \in Callers :
          (ReturnsNow(c) /\ ~ret'[c].success)
          => (db' = db /\ "put" \notin hist'[c].ops)]_vars

C11_Witness ==
    \E c \in Callers :
        /\ ret[c].returned /\ ~ret[c].success
        /\ "extract" \in hist[c].ops
        /\ hist[c].db_at_call # <<>>
        /\ db = hist[c].db_at_call

\* the order of the await points of one request: the cache checks, locate,
\* download, extraction and parsing, the cache writes, the clean-up; "return"
\* stands for the return of auto_ensure_symbols_available
StageSteps ==
    { <<"idle", "check">>, <<"check", "patterns">>, <<"check", "return">>,
      <<"patterns", "locate">>, <<"patterns", "return">>,
      <<"locate", "download">>, <<"locate", "return">>,
      <<"download", "downloading">>, <<"download", "recheck">>, <<"download", "return">>,
      <<"downloading", "recheck">>, <<"downloading", "return">>,
      <<"recheck", "cache">>, <<"recheck", "return">>,
      <<"cache", "meta">>, <<"meta", "return">>,
      <<"lookup", "fallback">>, <<"lookup", "done">>, <<"fallback", "done">> }

\* the await point a request moves to in this step, "return" when its ensure
\* call returns
StageAfter(c) == IF ReturnsNow(c) THEN "return" ELSE pc'[c]

\* C12: the pipeline advances only in the order locate, download, extract and
\* parse, cache, done; a failure ends the call as failed with no later stage;
\* the cache is written only by a call that has located, inspected and
\* extracted the firmware without a failure and holds a non-empty table.
C12_StageOrder ==
    [][\A c \in Callers :
          /\ pc'[c] # pc[c] => <<pc[c], StageAfter(c)>> \in StageSteps
          /\ hist'[c].failed # {} => (ret'[c].returned /\ ~ret'[c].success)
          /\ ret[c].returned => hist'[c] = hist[c]
          /\ (ret'[c].returned /\ ~ret'[c].success) => "put" \notin hist'[c].ops
          /\ pc'[c] = "cache" =>
                /\ {"list", "info", "extract"} \subseteq hist'[c].ops
                /\ loc'[c].symbols # <<>>
          /\ "put" \in hist'[c].ops \ hist[c].ops =>
                /\ pc[c] = "cache"
                /\ \E k \in DOMAIN db' : db'[k].symbol_data = json_dumps(loc[c].symbols)]_vars

C12_Witness ==
    \E c, o \in Callers :
        /\ ret[c].returned /\ ret[c].success /\ "put" \in hist[c].ops
        /\ ret[o].returned /\ ret[o].message = "Failed to symbolicate kernelcache"

\* a request is about to run the symbolication tool: it holds a readable
\* firmware file, its key is not cached and no valid symbols file is on disk
AboutToSymbolicate(c) ==
    /\ pc[c] = "recheck"
    /\ ~IsHit(get_cached_symbols(db, KeyDBU(req[c].device, loc[c].extracted_build_version), now))
    /\ Readable(ipsw_files, loc[c].ipsw_path)
    /\ loc[c].ipsw_path \notin symbol_files

\* the tool writes output of the given shape and the call goes on to cache
\* exactly the pairs of that output
AcceptsOutput(c, shape) ==
    /\ EnsureRecheck(c, TRUE, shape)
    /\ pc'[c] = "cache"
    /\ loc'[c].symbols = json_loads(ToolSymbols(loc[c].ipsw_path))

\* C13: a non-empty map and a non-empty list of {address, symbol} records are
\* both accepted as tool output: the call goes on to cache exactly those pairs.
C13_BothShapesAccepted ==
    \A c \in Callers : AboutToSymbolicate(c) =>
        /\ ENABLED AcceptsOutput(c, "dict")
        /\ ENABLED AcceptsOutput(c, "list")

\* the map shape alone is accepted
C13_MapAccepted ==
    \A c \in Callers : AboutToSymbolicate(c) => ENABLED AcceptsOutput(c, "dict")

\* the call of o ended before the call c is making now began
Earlier(o, c) ==
    /\ o # c /\ ret[o].returned /\ pc[c] \in EnsurePcs /\ ~Overlap(o, c)

\* the local path download_ipsw computes for the request of c (lines 583-588
\* and internal_s3_manager.py 509-516), NoFile.key when nothing matches
DownloadTarget(c) ==
    LET r == req[c]
        build_arg == IF r.build # "" THEN r.build ELSE FileInfo(loc[c].matching).build
    IN  find_ipsw(r.device, r.version, build_arg).key

\* C14: after a download failed or was interrupted, a later call for the same
\* key fetches the artifact again: a call goes on without a fetch only when
\* the file at the local path is a complete artifact.
C14_FailedDownloadRetryable ==
    [][\A c, o \in Callers :
          ( /\ Earlier(o, c) /\ req[o] = req[c]
            /\ ret[o].message = "Failed to download IPSW"
            /\ pc[c] = "download" /\ pc'[c] # "download"
            /\ DownloadTarget(c) # NoFile.key )
          => \/ "fetch" \in hist'[c].ops
             \/ Readable(ipsw_files, DownloadTarget(c))]_vars

\* C17: a file present at an artifact's final local path is a complete download.
C17_FinalPathComplete ==
    \A f \in DOMAIN ipsw_files : ipsw_files[f] = "complete"

\* the messages of a call that a timed-out tool run or transfer ends with
\* (run_command returns False, "Command timed out"; the transfer returns False)
TimeoutMessages ==
    { "Failed to download IPSW", "Failed to extract IPSW info",
      "Failed to extract kernelcache", "Failed to symbolicate kernelcache" }

\* the call of c, at the download step, goes on when the tool completes
DownloadGoesOn(c) ==
    /\ EnsureDownload(c, TRUE)
    /\ pc'[c] \in {"downloading", "recheck"}

\* C15: after a call for a key ended because the tool or the transfer timed
\* out, a later call for the same key is not blocked and gets through the
\* download step when the firmware is in the repository and the tool completes.
C15_RetryAfterTimeout ==
    \A c, o \in Callers :
        ( /\ Earlier(o, c) /\ req[o] = req[c]
          /\ ret[o].message \in TimeoutMessages
          /\ pc[c] = "download"
          /\ find_ipsw(req[c].device, req[c].version,
                       IF req[c].build # "" THEN req[c].build
                       ELSE FileInfo(loc[c].matching).build) # NoFile )
        => ENABLED DownloadGoesOn(c)

\* the messages of ExtractionFailed and NoSymbolsProduced
ExtractionFailures ==
    { "Failed to extract kernelcache", "Failed to symbolicate kernelcache",
      "No symbols loaded" }

\* C16: after a call for a key failed in extraction or produced no symbols, a
\* later call for the same key does not run the extraction tool again (no
\* request of the code carries a forced-re-extraction flag).
C16_NoSilentRetry ==
    [][\A c, o \in Callers :
          ( /\ Earlier(o, c) /\ req[o] = req[c]
            /\ ret[o].message \in ExtractionFailures )
          => "extract" \notin hist'[c].ops]_vars

EndsSpacePass(t) ==
    /\ t \in Workers /\ thread[t].pc = "cleanup" /\ thread'[t].pc # "cleanup"

\* C19: after an eviction pass that was started because the projected usage
\* exceeded the budget, the usage of the cache directory is within the budget.
C19_UsageWithinBudget ==
    [][\A t \in Threads : EndsSpacePass(t) => cache_usage(cache_dirs') <= CACHE_SIZE_GB]_vars

\* a directory of the cache whose log entry has one access and is older than
\* the age threshold
StaleSingle(dirs, log, t) ==
    {k \in DOMAIN dirs \cap DOMAIN log :
        log[k].access_count = 1 /\ (t - log[k].last_access) > CLEANUP_AFTER_HOURS}

\* the directories a step removes
RemovedNow == DOMAIN cache_dirs \ DOMAIN cache_dirs'

\* C20: during an eviction pass no item with access_count > 1 is removed while
\* an item with access_count == 1 older than the age threshold is still there.
C20_SinglesFirst ==
    [][\A k \in RemovedNow :
          (k \in DOMAIN access_log /\ access_log[k].access_count > 1)
              => StaleSingle(cache_dirs', access_log', now) = {}]_vars

\* the order of a pass by the counts it collected when it started: once an
\* item collected with more than one access is removed, no item collected
\* with one access and past the age threshold is left in the list
C20_SinglesFirst_collected ==
    [][\A t \in Threads :
          (thread[t].pc = "cleanup" /\ RemovedNow # {}
           /\ thread[t].items[thread[t].i].cache_key \in RemovedNow
           /\ thread[t].items[thread[t].i].access_count > 1)
          => \A j \in (thread[t].i + 1)..Len(thread[t].items) :
                ~( /\ thread[t].items[j].access_count = 1
                   /\ (now - thread[t].items[j].last_access) > CLEANUP_AFTER_HOURS )]_vars

\* C21: an eviction pass removes items only while the usage of the cache
\* directory exceeds the budget: no item is removed in a state whose usage is
\* at or below the budget.
C21_EvictsOnlyOverBudget ==
    [][RemovedNow # {} => cache_usage(cache_dirs) > CACHE_SIZE_GB]_vars

\* thread t removes, in this step, the item its pass has reached
RemovesItem(t) ==
    /\ thread[t].pc = "cleanup"
    /\ thread'[t].pc = "unlog"
    /\ thread[t].items[thread[t].i].cache_key \in RemovedNow

\* C22: within one pass the removed items are a prefix of the candidates in
\* the order (access_count, last_access): when an item is removed, every
\* candidate before it in that order has been removed.
C22_RemovedIsPrefix ==
    [][\A t \in Threads : RemovesItem(t) =>
          \A j \in 1..(thread[t].i - 1) :
              thread[t].items[j].cache_key \notin DOMAIN cache_dirs]_vars

\* a get_ipsw_path call reads and rewrites the log entry of k in this step
ReadsEntry(k) ==
    /\ k \in DOMAIN access_log /\ k \in DOMAIN access_log'
    /\ access_log'[k].access_count = access_log[k].access_count + 1

\* a pass has deleted the directory of k and not yet its log entry
HalfRemoved(k) ==
    \E t \in Threads :
        /\ thread[t].pc = "unlog"
        /\ thread[t].items[thread[t].i].cache_key = k

\* C23: the removal of a cached item is atomic for concurrent readers: no
\* get_ipsw_path call finds a log entry whose directory a pass has deleted.
C23_RemovalAtomic ==
    [][\A k \in IpswKeys : ReadsEntry(k) => ~HalfRemoved(k)]_vars

\* request c holds a downloaded firmware file it has not yet extracted from
HoldsArtifact(c) ==
    pc[c] = "recheck" /\ loc[c].ipsw_path \in DOMAIN ipsw_files

\* C24: no cleanup deletes a firmware file while a pipeline that downloaded it
\* has not finished extracting from it (a step that moves no request is a
\* cleanup, a scan or the clock).
C24_CleanupSparesReaders ==
    [][\A c \in Callers :
          (HoldsArtifact(c) /\ pc' = pc) => loc[c].ipsw_path \in DOMAIN ipsw_files']_vars

\* the extraction pipeline of request c completes in this step
CompletesExtraction(c) == pc[c] = "meta" /\ pc'[c] # "meta"

\* C25: a hit reflects the most recently completed extraction: when a pipeline
\* completes, a read of the key or of any alias it wrote that hits returns the
\* table this pipeline loaded, also when another pipeline overlaps it.
C25_HitsReflectLastExtraction ==
    [][\A c \in Callers :
          CompletesExtraction(c)
          => \A i \in 1..Len(loc[c].cache_keys) :
                LET syms == get_cached_symbols(db', loc[c].cache_keys[i], now')
                IN  IsHit(syms) => syms.data = loc[c].symbols]_vars

\* C26: a listing older than its time to live is refreshed by the next call
\* that uses it, whatever the elapsed time, a day or more included.
C26_StaleListingRefreshed ==
    (fresh.manager # "" /\ fresh.elapsed > CACHE_TTL[fresh.manager]) => fresh.refreshed

\* the device-equivalence rule: the names without their non-alphanumeric
\* characters and in lower case are equal, or both are phone-family
\* identifiers with the same sequence of digit runs
Normalized(name) == sub_non_alnum(str_lower(name))
PhoneFamily(name) == str_in(IPHONE, Normalized(name))
Equivalent(a, b) ==
    \/ Normalized(a) = Normalized(b)
    \/ PhoneFamily(a) /\ PhoneFamily(b) /\ findall_digits(a) = findall_digits(b)

\* the artifact answers the request: version, build and a declared device
Answers(f) ==
    /\ f.version = wanted.version
    /\ (wanted.build = "" \/ f.build = wanted.build)
    /\ \E i \in 1..Len(f.device_models) : Equivalent(f.device_models[i], wanted.device)

\* C27: find_ipsw returns an artifact only if it has the requested version,
\* the requested build when one was requested and a declared device equivalent
\* to the requested one, and it returns one whenever the listing has such an
\* artifact.
C27_FindIpswSoundAndComplete ==
    located.done =>
        \A r \in {located.internal_find, located.downloader_find} :
            /\ r # NoEntry => Answers(r)
            /\ (\E i \in 1..Len(bucket_cache) : Answers(bucket_cache[i])) => r # NoEntry

\* the artifact declares several devices and the requested one is equivalent to
\* one of them
MultiDeviceFor(f) ==
    /\ Len(f.device_models) > 1
    /\ \E i \in 1..Len(f.device_models) : Equivalent(f.device_models[i], wanted.device)

\* C28: a multi-device artifact is matched for each of its declared devices
\* by every locator operation: the listing with the device filter contains
\* it, and when it also has the requested version and build the artifact
\* selection and find_ipsw return an artifact.
C28_MultiDeviceLocated ==
    located.done =>
        \A i \in 1..Len(bucket_cache) :
            MultiDeviceFor(bucket_cache[i])
            => /\ \E k \in 1..Len(located.listing) : located.listing[k] = bucket_cache[i]
               /\ Answers(bucket_cache[i])
                  => (located.selected # NoEntry /\ located.internal_find # NoEntry)

\* C29: _device_matches holds for two names exactly when they are equivalent
\* under the rule: equal normalizations, or phone-family identifiers with
\* equal digit runs, and in no other case.
C29_DeviceMatchesIsTheRule ==
    located.done =>
        \A i \in 1..Len(bucket_cache) :
            /\ located.internal_matches[i]
                  <=> Equivalent(bucket_cache[i].device, wanted.device)
            /\ located.downloader_matches[i]
                  <=> Equivalent(bucket_cache[i].key.device, wanted.device)

\* the requested version contains the key or is contained by it
KeyFits(key, version) == str_in(key, version) \/ str_in(version, key)

\* C30: signature resolution selects the first version key, in iteration
\* order, that the requested version contains or is contained by, and is
\* unresolved only when there is no such key.
C30_FirstFittingKey ==
    version_key.done =>
        LET fits == {i \in 1..Len(kernel_signatures) :
                        KeyFits(kernel_signatures[i], requested_os_version)}
        IN  IF fits = {} THEN ~version_key.found
            ELSE /\ version_key.found
                 /\ version_key.key
                       = kernel_signatures[CHOOSE i \in fits : \A j \in fits : i <= j]

\* C31: signature resolution returns a symbol only for an address at or above
\* the symbol's address and less than 4 KiB past it: 0 <= offset < 0x1000.
C31_OffsetWithinFunction ==
    kernel_symbol.found => (0 <= kernel_symbol.offset /\ kernel_symbol.offset < SIG_TOLERANCE)

\* the call of request c ends in this step
LeavesEnsure(c) == pc[c] \in EnsurePcs /\ pc'[c] \notin EnsurePcs

\* C32: ensure_available never raises: whatever the store, the listing, the
\* download or the tool do, exceptions included, the call ends by returning
\* success or failure together with a message.
C32_AlwaysReturnsStatus ==
    [][\A c \in Callers :
          LeavesEnsure(c)
          => /\ ret'[c].returned
             /\ ret'[c].message # ""
             /\ pc'[c] \in {"lookup", "done"}]_vars

C32_Witness ==
    \E c \in Callers :
        /\ ret[c].returned /\ ~ret[c].success
        /\ ret[c].message \in {"Auto-scan failed", "Auto-scan error"}

\* the keys symbolicate_crash looks up after the call returned (925-946)
ResolutionKeys(r) == <<KeyDV(r.device, r.version)>> \o FallbackLookupKeys(r)

\* C33: whenever ensure_available returns success to symbolicate_crash, the
\* lookups symbolicate_crash makes right after the return, on the store and
\* the clock of that moment, find a symbol table for the same request
C33_SuccessImpliesLookupHit ==
    [][\A c \in Callers :
          (LeavesEnsure(c) /\ Endpoint[c] = "symbolicate" /\ ret'[c].success)
          => \E i \in 1..Len(ResolutionKeys(req[c])) :
                IsHit(get_cached_symbols(db', ResolutionKeys(req[c])[i], now'))]_vars
\* the call returns from the last step of the pipeline (line 686)
ReportsExtraction(c) ==
    /\ pc[c] = "meta"
    /\ ret'[c].returned /\ ret'[c].success
    /\ ret'[c].message = "Successfully auto-scanned and cached"

\* C34: when ensure_available reports a successful extraction, a live record
\* holding the extracted table is stored under the device|version key of the
\* request, also when writes to the cache store failed
C34_ReportedExtractionIsStored ==
    [][\A c \in Callers :
          ReportsExtraction(c)
          => LET key == KeyDV(req[c].device, req[c].version)
             IN  /\ RowLive(db', key, now')
                 /\ json_loads(db'[key].symbol_data) = loc[c].symbols]_vars
\* C35: the artifact the locate step selected is the artifact the download
\* step looks up and fetches, also when the locate step fell back to an
\* artifact of another build
C35_DownloadFetchesSelected ==
    (located.done /\ located.selected # NoEntry)
    => located.download = located.selected
\* C36: downloaded artifacts do not accumulate: whenever a downloaded
\* artifact is in the downloads directory, it is eventually deleted, by the
\* call that downloaded it or by the eviction manager
C36_ArtifactsEventuallyDeleted ==
    (ipsw_files # <<>>) ~> (ipsw_files = <<>>)
\* C37: a refresh in which no listing method got an answer leaves the
\* listing as it was and does not stamp it as fresh
C37_FailedRefreshChangesNothing ==
    (refresh_task.finished /\ ~refresh_task.answered)
    => /\ refresh_task.after = refresh_task.before
       /\ cache_timestamp[INTERNAL] = refresh_task.stamp_before

\* the request's artifact is in the listing
Listed(files) ==
    internal_find_ipsw(files, wanted.device, wanted.version, wanted.build) # NoEntry

\* C38: a find_ipsw call made while a refresh was running did not return
\* not-found for an artifact that is in the listing before the refresh and in
\* the listing after it
C38_ReaderSeesOldOrNew ==
    (refresh_task.finished /\ Listed(refresh_task.before) /\ Listed(refresh_task.after))
    => FALSE \notin refresh_task.reads
\* C39: the total size of the files in the cache directory never exceeds the
\* budget, also while several cache workers run at the same time
C39_CacheNeverOverBudget ==
    cache_usage(cache_dirs) <= CACHE_SIZE_GB
\* the watchers whose start_monitoring has begun and has not ended
ActiveLoops == {i \in 1..Len(watcher.objects) :
                   watcher.objects[i].task \in {"scan", "check", "sleep"}}

\* C40: at most one monitoring loop of the file watcher is active at any
\* time, also when start_file_watcher is called twice before the first
\* watcher's task has begun
C40_OneMonitoringLoop ==
    Cardinality(ActiveLoops) <= 1
====
